---- MODULE Spec2Model ----
(***************************************************************************)
(* torrent-bootstrap: the choice generator (solver/choices.rs), the piece  *)
(* solver (solver/task.rs) and the work-stealing executor                  *)
(* (solver/executor.rs).                                                   *)
(*                                                                         *)
(* Vectors are 1-based sequences; the code's 0-based positions (index,     *)
(* candidate numbers, thread ids) keep their 0-based values and are        *)
(* shifted by one where they subscript a sequence.                         *)
(***************************************************************************)
EXTENDS Integers, Sequences, FiniteSets, TLC

VARIABLES
    \* ---- generator / consumer exercised alone (tests of choices.rs) ----
    g_choices,      \* the candidate-count vector given to reset_from
    g_target,       \* the target given to reset_from
    generator,      \* the ChoiceGenerator
    consumer,       \* the ChoiceConsumer
    g_pc,           \* "idle" | "gen" | "cons" | "done"
    g_tasks,        \* the tasks yielded so far, each as the consumer get filled
    g_workload,     \* sum of the task workloads (actual_count of the tests)
    g_produced,     \* every choice vector the consumer stood on, in order
    \* ---- executor ----
    items,          \* the piece ids given to run, in list order
    hashes,         \* declared digest of every piece of the table
    target_split,   \* Task::target_split
    thread_count,   \* run's clamped thread_count (0 while the executor is idle)
    pending,        \* ExecutionState::pending
    active,         \* ExecutionState::active
    completed,      \* TaskState::completed, per piece
    pending_lock,   \* holder of the pending mutex: None or Some(thread id)
    slot_lock,      \* holder of each slot mutex: None or Some(thread id)
    wpc,            \* per worker: position in run_internal
    current_thread_id, \* per worker: run_internal's current_thread_id
    choice_consumer,   \* per worker: run_internal's choice_consumer
    task_state,     \* per worker: the Arc<TaskState> in hand, as Some(piece id)
    output_bytes,   \* per worker: Solver::output_bytes
    output_paths,   \* per worker: Solver::output_paths
    lock_index,     \* per worker: next slot index to lock while stealing
    chan,           \* the bounded writer channel (PieceUpdates in flight)
    sent,           \* every PieceUpdate ever sent, in order
    retired,        \* piece ids whose slot was cleared after take returned None
    unreadable,     \* the cataloged paths whose File::open fails
    poisoned,       \* the mutexes a panicking thread held: slot ids, PendingMutex
    io_failed,      \* piece ids for which a read has failed
    \* ---- functions exercised alone (bencode, torrent, pieces) ----
    f_call,         \* the function called: "none" while none is exercised
    f_input,        \* its argument
    f_output        \* None before the call returns, then Some(result)

gvars == <<g_choices, g_target, generator, consumer, g_pc, g_tasks, g_workload,
           g_produced>>
evars == <<items, hashes, target_split, thread_count, pending, active, completed,
           pending_lock, slot_lock, wpc, current_thread_id, choice_consumer,
           task_state, output_bytes, output_paths, lock_index, chan, sent, retired,
           unreadable, poisoned, io_failed>>
iovars == <<unreadable, poisoned, io_failed>>
ovars == <<f_call, f_input, f_output>>
vars == <<gvars, evars, ovars>>

\* Option<T>: None is the empty sequence, Some(x) the one-element sequence
None == <<>>
Some(x) == <<x>>
Unwrap(o) == o[1]

(***************************************************************************)
(* Bounds                                                                  *)
(***************************************************************************)
MaxAxes == 3        \* longest candidate-count vector tried on the generator
MaxCount == 3       \* largest candidate count per axis tried on the generator
MaxTarget == 7      \* largest target tried on the generator
MaxItems == 2       \* longest item list given to the executor
MaxThreads == 2     \* largest thread_count given to the executor
MaxSplit == 2       \* largest target_split of the tasks
ChanCap == 1        \* capacity of the bounded writer channel
HashMod == 3        \* number of distinct digests of the checksum

Min(a, b) == IF a < b THEN a ELSE b
Max(a, b) == IF a > b THEN a ELSE b

RECURSIVE SeqsUpTo(_, _)
SeqsUpTo(S, n) ==
    IF n = 0 THEN {<<>>}
    ELSE LET shorter == SeqsUpTo(S, n - 1)
         IN shorter \cup {Append(s, x) : s \in {t \in shorter : Len(t) = n - 1}, x \in S}

(***************************************************************************)
(* solver/choices.rs                                                       *)
(***************************************************************************)
MaskRange(start, end, current) ==
    [kind |-> "MaskRange", start |-> start, end |-> end, current |-> current]
AllRange(start, end, current) ==
    [kind |-> "AllRange", start |-> start, end |-> end, current |-> current]
\* ChoiceConsumerEntry::Mask(value)
Mask(value) ==
    [kind |-> "Mask", start |-> value, end |-> value, current |-> value]

\* MaskRange::advance / AllRange::advance: the entry after the call
RangeAdvance(e) ==
    IF e.current < e.end THEN [e EXCEPT !.current = e.current + 1] ELSE e

\* ChoiceGeneratorEntry::advance: [entry after the call, value returned]
GeneratorEntryAdvance(e) ==
    IF e.kind = "MaskRange"
    THEN LET a == RangeAdvance(e) IN [entry |-> a, advanced |-> a.current < a.end]
    ELSE [entry |-> e, advanced |-> FALSE]

\* ChoiceGeneratorEntry::reset
GeneratorEntryReset(e) ==
    IF e.kind = "MaskRange" THEN [e EXCEPT !.current = e.start] ELSE e

\* ChoiceConsumerEntry::advance
ConsumerEntryAdvance(e) ==
    IF e.kind = "AllRange"
    THEN LET a == RangeAdvance(e) IN [entry |-> a, advanced |-> a.current < a.end]
    ELSE [entry |-> e, advanced |-> FALSE]

\* ChoiceConsumerEntry::reset
ConsumerEntryReset(e) ==
    IF e.kind = "AllRange" THEN [e EXCEPT !.current = e.start] ELSE e

EntryAdvance(e, side) ==
    IF side = "generator" THEN GeneratorEntryAdvance(e) ELSE ConsumerEntryAdvance(e)
EntryReset(e, side) ==
    IF side = "generator" THEN GeneratorEntryReset(e) ELSE ConsumerEntryReset(e)

\* mutant: the positions right of the advanced one are not reset
ResetAfter_NoReset(selection, next_index, side) == selection

\* for reset_index in (next_index + 1)..selection.len(): selection[reset_index].reset()
ResetAfter(selection, next_index, side) ==
    [i \in 1..Len(selection) |->
        IF i - 1 > next_index THEN EntryReset(selection[i], side) ELSE selection[i]]

\* the carry loop of next(): next_index and next_advance are the loop's locals
RECURSIVE NextLoop(_, _, _, _)
NextLoop(s, next_index, next_advance, side) ==
    IF next_index = 0 /\ ~next_advance
    THEN [s EXCEPT !.ended = TRUE]
    ELSE LET ni == next_index - 1
             a == EntryAdvance(s.selection[ni + 1], side)
             sel == [s.selection EXCEPT ![ni + 1] = a.entry]
         IN IF a.advanced
            THEN [s EXCEPT !.selection = ResetAfter(sel, ni, side),
                           !.index = Len(sel) - 1]
            ELSE NextLoop([s EXCEPT !.selection = sel], ni, FALSE, side)

\* ChoiceGenerator::next and ChoiceConsumer::next (the same odometer)
OdometerNext(s, side) ==
    IF s.ended THEN s
    ELSE LET a == EntryAdvance(s.selection[s.index + 1], side)
             sel == [s.selection EXCEPT ![s.index + 1] = a.entry]
         IN IF ~a.advanced
            THEN NextLoop([s EXCEPT !.selection = sel], s.index, s.index # 0, side)
            ELSE [s EXCEPT !.selection = ResetAfter(sel, s.index, side),
                           !.index = Len(sel) - 1]

GeneratorNext(g) == OdometerNext(g, "generator")
ConsumerNext(c) == OdometerNext(c, "consumer")

\* ChoiceGenerator::empty / ChoiceConsumer::empty
EmptyGenerator == [index |-> 0, ended |-> TRUE, selection |-> <<>>]
EmptyConsumer == [index |-> 0, ended |-> TRUE, selection |-> <<>>]

\* ChoiceGenerator::combinations (the products of this model stay far below
\* usize::MAX, so checked_mul never saturates)
RECURSIVE CombinationsFrom(_, _, _)
CombinationsFrom(choices, index, calculated) ==
    IF index > Len(choices) THEN calculated
    ELSE LET c == calculated * choices[index]
         IN IF c = 0 THEN c ELSE CombinationsFrom(choices, index + 1, c)

Combinations(choices) == CombinationsFrom(choices, 2, choices[1])

\* ChoiceGenerator::reset_from_internal; st holds the three &mut arguments
RECURSIVE ResetFromInternal(_, _, _, _)
ResetFromInternal(st, choices, depth, target) ==
    IF depth = Len(choices)
    THEN LET staging_count == Combinations(st.staging)
         IN IF staging_count >= target /\ staging_count < st.best_count
            THEN [st EXCEPT !.best = st.staging, !.best_count = staging_count]
            ELSE st
    ELSE LET s1 == [st EXCEPT !.staging[depth + 1] = choices[depth + 1]]
             r1 == IF Combinations(s1.staging) < s1.best_count
                   THEN ResetFromInternal(s1, choices, depth + 1, target)
                   ELSE s1
         IN IF choices[depth + 1] # 1
            THEN LET s2 == [r1 EXCEPT !.staging[depth + 1] = 1]
                 IN IF Combinations(s2.staging) < s2.best_count
                    THEN ResetFromInternal(s2, choices, depth + 1, target)
                    ELSE s2
            ELSE r1

\* mutant: a fit must exceed the target (> for >= at line 173)
BestFit_StrictTarget(choices, target) ==
    ResetFromInternal([staging |-> [i \in 1..Len(choices) |-> 1],
                       best |-> choices,
                       best_count |-> Combinations(choices)],
                      choices, 0, target + 1)

\* the best fit reset_from computes (lines 126-130)
BestFit(choices, target) ==
    ResetFromInternal([staging |-> [i \in 1..Len(choices) |-> 1],
                       best |-> choices,
                       best_count |-> Combinations(choices)],
                      choices, 0, target)

\* lines 139-157 of reset_from: the selection built from the best fit
SelectionFrom(choices, fit) ==
    LET total_count == Combinations(choices)
    IN [i \in 1..Len(choices) |->
           IF fit.best[i] = choices[i] /\ total_count # fit.best_count
           THEN MaskRange(0, choices[i], 0)
           ELSE AllRange(0, choices[i], 0)]

\* mutant: reset_from without the zero-candidate check of line 120
ResetFrom_NoZeroCheck(choices, target) ==
    IF Len(choices) = 0
    THEN EmptyGenerator
    ELSE [index |-> Len(choices) - 1, ended |-> FALSE,
          selection |-> SelectionFrom(choices, BestFit(choices, target))]

\* mutant: reset_from without the total_count != best_count test of line 140
ResetFrom_NoTotalCheck(choices, target) ==
    IF Len(choices) = 0 \/ \E i \in 1..Len(choices) : choices[i] = 0
    THEN EmptyGenerator
    ELSE [index |-> Len(choices) - 1, ended |-> FALSE,
          selection |-> [i \in 1..Len(choices) |->
              IF BestFit(choices, target).best[i] = choices[i]
              THEN MaskRange(0, choices[i], 0)
              ELSE AllRange(0, choices[i], 0)]]

\* ChoiceGenerator::reset_from
ResetFrom(choices, target) ==
    IF Len(choices) = 0 \/ \E i \in 1..Len(choices) : choices[i] = 0
    THEN EmptyGenerator
    ELSE [index |-> Len(choices) - 1, ended |-> FALSE,
          selection |-> SelectionFrom(choices, BestFit(choices, target))]

\* ChoiceGenerator::get: the consumer after the call
GeneratorGet(g) ==
    [selection |-> [i \in 1..Len(g.selection) |->
                       IF g.selection[i].kind = "MaskRange"
                       THEN Mask(g.selection[i].current)
                       ELSE g.selection[i]],
     index |-> Max(1, Len(g.selection)) - 1,
     ended |-> Len(g.selection) = 0]

\* ChoiceConsumer::get(index).get(), for every index: the choice vector
ConsumerChoice(c) == [i \in 1..Len(c.selection) |-> c.selection[i].current]

\* the workload the tests of choices.rs count for one task
RECURSIVE TaskWorkloadFrom(_, _)
TaskWorkloadFrom(c, i) ==
    IF i > Len(c.selection) THEN 1
    ELSE (IF c.selection[i].kind = "Mask" THEN 1 ELSE c.selection[i].end)
         * TaskWorkloadFrom(c, i + 1)

TaskWorkload(c) == TaskWorkloadFrom(c, 1)

(***************************************************************************)
(* The frozen metadata the solver reads (metadata.rs): a torrent with      *)
(* piece_length 3 and the files A (4 bytes), B (2), .pad/4 (4, padding),   *)
(* C (2) and D (3), laid out in this order, and the files found on disk.   *)
(*   piece 1 = A[0..3)            one segment, two candidates              *)
(*   piece 2 = A[3..4) + B[0..2)  two segments                             *)
(*   piece 3 = pad[0..3)          one padding segment of a 4-byte file     *)
(*   piece 4 = pad[3..4) + C[0..2) padding and a real segment              *)
(*   piece 5 = D[0..3)            no file of length 3 on disk: unsolvable  *)
(***************************************************************************)
\* contents of the cataloged paths; paths 1, 2 have length 4, paths 3, 4, 5
\* length 2 (path 5 is a copy of path 4, not a hard link, and path 2 has the
\* first three bytes of path 1)
Disk == << <<1, 2, 1, 1>>, <<1, 2, 1, 2>>, <<2, 1>>, <<1, 1>>, <<1, 1>> >>

\* TorrentFileEntry::export_target, per file: the export files of A and C are
\* on disk, as paths 1 and 3, and rank first in searches; 0 stands for an
\* export target that is not on disk
ExportTarget == <<1, 0, 0, 3, 0>>

\* TorrentFileEntry: searches as discover_and_apply_searches leaves them (every
\* cataloged path of the file's length, None when there is none)
TorrentFiles == <<
    [padding |-> FALSE, file_length |-> 4, searches |-> Some(<<1, 2>>)],
    [padding |-> FALSE, file_length |-> 2, searches |-> Some(<<3, 4, 5>>)],
    [padding |-> TRUE,  file_length |-> 4, searches |-> None],
    [padding |-> FALSE, file_length |-> 2, searches |-> Some(<<3, 4, 5>>)],
    [padding |-> FALSE, file_length |-> 3, searches |-> None] >>

\* TorrentPieceFileEntry
PieceFile(file_id, read_start_position, read_length) ==
    [file_id |-> file_id, read_start_position |-> read_start_position,
     read_length |-> read_length]

\* TorrentPieceEntry::files, per piece id
PieceFiles == <<
    << PieceFile(1, 0, 3) >>,
    << PieceFile(1, 3, 1), PieceFile(2, 0, 2) >>,
    << PieceFile(3, 0, 3) >>,
    << PieceFile(3, 3, 1), PieceFile(4, 0, 2) >>,
    << PieceFile(5, 0, 3) >> >>

PieceIds == 1..Len(PieceFiles)

\* calculate_total_choices_for_piece
TotalChoices(piece_id) ==
    LET files == PieceFiles[piece_id]
        choices == [i \in 1..Len(files) |->
            LET file == TorrentFiles[files[i].file_id]
            IN IF file.padding THEN 1
               ELSE IF file.searches # None THEN Len(Unwrap(file.searches))
               ELSE 0]
    IN IF \E i \in 1..Len(choices) : choices[i] = 0 THEN <<>> ELSE choices

(***************************************************************************)
(* solver/task.rs                                                          *)
(***************************************************************************)
Zeros(n) == [i \in 1..n |-> 0]

RECURSIVE SumBytes(_)
SumBytes(bytes) ==
    IF bytes = <<>> THEN 0 ELSE Head(bytes) + SumBytes(Tail(bytes))

\* Task::read_bytes: seek to read_start_position, read up to read_length bytes
ReadBytes(path, read_length, read_start_position) ==
    SubSeq(Disk[path], read_start_position + 1,
           Min(read_start_position + read_length, Len(Disk[path])))

\* mutant: every candidate is kept, equal bytes or not
PreloadSearches_KeepAll(searches, k, piece_file, results) ==
    [c \in 1..Len(searches) |->
        [path |-> Some(searches[c]),
         bytes |-> ReadBytes(searches[c], piece_file.read_length,
                             piece_file.read_start_position)]]

\* the de-duplicating loop of preload over one file's searches (lines 113-124)
RECURSIVE PreloadSearches(_, _, _, _)
PreloadSearches(searches, k, piece_file, results) ==
    IF k > Len(searches) THEN results
    ELSE LET value == ReadBytes(searches[k], piece_file.read_length,
                                piece_file.read_start_position)
         IN IF \E r \in 1..Len(results) : results[r].bytes = value
            THEN PreloadSearches(searches, k + 1, piece_file, results)
            ELSE PreloadSearches(searches, k + 1, piece_file,
                     Append(results, [path |-> Some(searches[k]), bytes |-> value]))

\* Task::preload, from the file at position k on
RECURSIVE PreloadFrom(_, _, _)
PreloadFrom(files, k, loaded) ==
    IF k > Len(files) THEN loaded
    ELSE LET torrent_file == TorrentFiles[files[k].file_id]
         IN IF torrent_file.padding
            THEN PreloadFrom(files, k + 1,
                     Append(loaded, << [path |-> None,
                                        bytes |-> Zeros(files[k].read_length)] >>))
            ELSE IF torrent_file.searches # None
            THEN PreloadFrom(files, k + 1,
                     Append(loaded, PreloadSearches(Unwrap(torrent_file.searches), 1,
                                                    files[k], <<>>)))
            ELSE <<>>

\* Task::preload returns Err: a read_bytes of line 115 fails (File::open on an
\* unreadable path) before the walk over the files returns at line 126
RECURSIVE PreloadFailsFrom(_, _)
PreloadFailsFrom(files, k) ==
    IF k > Len(files) THEN FALSE
    ELSE LET torrent_file == TorrentFiles[files[k].file_id]
         IN IF torrent_file.padding THEN PreloadFailsFrom(files, k + 1)
            ELSE IF torrent_file.searches # None
            THEN \/ \E i \in 1..Len(Unwrap(torrent_file.searches)) :
                      Unwrap(torrent_file.searches)[i] \in unreadable
                 \/ PreloadFailsFrom(files, k + 1)
            ELSE FALSE

\* line 60 of Task::take: self.preload().unwrap() panics
PreloadFails(piece_id) ==
    /\ Len(PieceFiles[piece_id]) > 1
    /\ PreloadFailsFrom(PieceFiles[piece_id], 1)

\* Task::preload
Preload(piece_id) == PreloadFrom(PieceFiles[piece_id], 1, <<>>)

\* TaskState::preloaded as Task::take sets it (lines 52-65), for every piece
PreloadedTable ==
    [piece_id \in PieceIds |->
        IF Len(PieceFiles[piece_id]) > 1 THEN Some(Preload(piece_id)) ELSE None]

Preloaded(piece_id) == PreloadedTable[piece_id]

\* line 200 of Solver::solve: File::open(path).unwrap() panics for the choice
\* the consumer stands on (single-segment path only)
ReadFails(piece_id, cons) ==
    /\ Preloaded(piece_id) = None
    /\ \E i \in 1..Len(cons.selection) :
          LET file_entry == TorrentFiles[PieceFiles[piece_id][i].file_id]
          IN /\ ~file_entry.padding
             /\ Unwrap(file_entry.searches)[cons.selection[i].current + 1]
                   \in unreadable

\* the choices Task::take gives to reset_from (lines 57-65)
TaskChoices(piece_id) ==
    LET choices == TotalChoices(piece_id)
        preloaded == Preloaded(piece_id)
    IN IF preloaded = None THEN choices
       ELSE [i \in 1..Len(choices) |->
                IF i <= Len(Unwrap(preloaded)) THEN Len(Unwrap(preloaded)[i])
                ELSE choices[i]]

\* Task::new
NewTask(piece_id) ==
    [piece_id |-> piece_id, initialized |-> FALSE, generator |-> EmptyGenerator]

\* line 67 of Task::take, for every piece and target_split: the generator
\* after choice_generator.reset_from(&choices, self.target_split)
InitialGenerator ==
    [piece_id \in PieceIds |->
        [split \in 1..MaxSplit |-> ResetFrom(TaskChoices(piece_id), split)]]

\* lines 50-76 of Task::take: the task with its generator initialized
TaskInitialized(task, split) ==
    IF task.initialized THEN task
    ELSE [task EXCEPT !.initialized = TRUE,
                      !.generator = InitialGenerator[task.piece_id][split]]

\* mutant: take hands out the generator's task without moving the generator on
\* (generator.next() of line 90 dropped)
TaskTake_NoNext(task, split, is_completed, cons) ==
    LET t == TaskInitialized(task, split)
    IN IF t.generator.ended \/ is_completed
       THEN [task |-> t, item |-> None, consumer |-> cons]
       ELSE [task |-> t,
             item |-> Some(t.piece_id),
             consumer |-> GeneratorGet(t.generator)]

\* Task::take: the task after the call, the value returned (the piece id of the
\* Arc<TaskState>, or None) and the caller's consumer after the call
TaskTake(task, split, is_completed, cons) ==
    LET t == TaskInitialized(task, split)
    IN IF t.generator.ended \/ is_completed
       THEN [task |-> t, item |-> None, consumer |-> cons]
       ELSE [task |-> [t EXCEPT !.generator = GeneratorNext(t.generator)],
             item |-> Some(t.piece_id),
             consumer |-> GeneratorGet(t.generator)]

\* the stand-in for SHA-1: a short checksum, so that distinct buffers can collide
Hash20(bytes) == (Len(bytes) + SumBytes(bytes)) % HashMod

\* lines 184-207 of Solver::solve, for the segment at file_index (0-based)
SegmentOutput(piece_id, file_index, choice) ==
    LET piece_file_entry == PieceFiles[piece_id][file_index + 1]
        file_entry == TorrentFiles[piece_file_entry.file_id]
        preloaded == Preloaded(piece_id)
    IN IF preloaded # None
       THEN Unwrap(preloaded)[file_index + 1][choice + 1]
       ELSE IF file_entry.padding
       THEN [path |-> None, bytes |-> Zeros(file_entry.file_length)]
       ELSE [path |-> Some(Unwrap(file_entry.searches)[choice + 1]),
             bytes |-> ReadBytes(Unwrap(file_entry.searches)[choice + 1],
                                 piece_file_entry.read_length,
                                 piece_file_entry.read_start_position)]

RECURSIVE ConcatBytes(_, _)
ConcatBytes(segments, k) ==
    IF k > Len(segments) THEN <<>>
    ELSE segments[k].bytes \o ConcatBytes(segments, k + 1)

\* the same, the candidates of every segment tried from the last to the first
BuildOutput_LastFirst(piece_id, cons) ==
    LET segments == [i \in 1..Len(cons.selection) |->
                        SegmentOutput(piece_id, i - 1,
                                      TaskChoices(piece_id)[i] - 1
                                         - cons.selection[i].current)]
    IN [bytes |-> ConcatBytes(segments, 1),
        paths |-> [i \in 1..Len(segments) |-> segments[i].path]]

\* output_bytes and output_paths after the for loop of lines 184-207
BuildOutput(piece_id, cons) ==
    LET segments == [i \in 1..Len(cons.selection) |->
                        SegmentOutput(piece_id, i - 1, cons.selection[i].current)]
    IN [bytes |-> ConcatBytes(segments, 1),
        paths |-> [i \in 1..Len(segments) |-> segments[i].path]]

\* PieceUpdate
PieceUpdate(piece_id, found, fault, bytes, paths) ==
    [piece_id |-> piece_id, found |-> found, fault |-> fault,
     output_bytes |-> bytes, output_paths |-> paths]

(***************************************************************************)
(* The generator and the consumer driven as the tests of choices.rs drive  *)
(* them: reset_from, then get / iterate the consumer / next until ended.   *)
(***************************************************************************)
GenIdle ==
    /\ g_choices = <<>>
    /\ g_target = 0
    /\ generator = EmptyGenerator
    /\ consumer = EmptyConsumer
    /\ g_pc = "idle"
    /\ g_tasks = <<>>
    /\ g_workload = 0
    /\ g_produced = <<>>

FnIdle ==
    /\ f_call = "none"
    /\ f_input = <<>>
    /\ f_output = <<>>

ExecIdle ==
    /\ items = <<>>
    /\ hashes = <<>>
    /\ target_split = 0
    /\ thread_count = 0
    /\ pending = <<>>
    /\ active = <<>>
    /\ completed = <<>>
    /\ pending_lock = None
    /\ slot_lock = <<>>
    /\ wpc = <<>>
    /\ current_thread_id = <<>>
    /\ choice_consumer = <<>>
    /\ task_state = <<>>
    /\ output_bytes = <<>>
    /\ output_paths = <<>>
    /\ lock_index = <<>>
    /\ chan = <<>>
    /\ sent = <<>>
    /\ retired = {}
    /\ unreadable = {}
    /\ poisoned = {}
    /\ io_failed = {}

InitGen ==
    /\ g_choices \in SeqsUpTo(0..MaxCount, MaxAxes)
    /\ g_target \in 0..MaxTarget
    /\ generator = ResetFrom(g_choices, g_target)
    /\ consumer = EmptyConsumer
    /\ g_pc = "gen"
    /\ g_tasks = <<>>
    /\ g_workload = 0
    /\ g_produced = <<>>
    /\ ExecIdle
    /\ FnIdle

\* while !generator.ended() { generator.get(&mut consumer); ...; generator.next(); }
GenTake ==
    /\ g_pc = "gen"
    /\ ~generator.ended
    /\ consumer' = GeneratorGet(generator)
    /\ generator' = GeneratorNext(generator)
    /\ g_tasks' = Append(g_tasks, consumer')
    /\ g_workload' = g_workload + TaskWorkload(consumer')
    /\ g_pc' = "cons"
    /\ UNCHANGED <<g_choices, g_target, g_produced, evars, ovars>>

GenEnd ==
    /\ g_pc = "gen"
    /\ generator.ended
    /\ g_pc' = "done"
    /\ UNCHANGED <<g_choices, g_target, generator, consumer, g_tasks, g_workload,
                   g_produced, evars, ovars>>

\* while !choices.ended() { read every choices.get(i).get(); choices.next(); }
ConsStep ==
    /\ g_pc = "cons"
    /\ ~consumer.ended
    /\ g_produced' = Append(g_produced, ConsumerChoice(consumer))
    /\ consumer' = ConsumerNext(consumer)
    /\ UNCHANGED <<g_choices, g_target, generator, g_pc, g_tasks, g_workload, evars, ovars>>

ConsEnd ==
    /\ g_pc = "cons"
    /\ consumer.ended
    /\ g_pc' = "gen"
    /\ UNCHANGED <<g_choices, g_target, generator, consumer, g_tasks, g_workload,
                   g_produced, evars, ovars>>

NextGen == GenTake \/ GenEnd \/ ConsStep \/ ConsEnd

SpecGen == InitGen /\ [][NextGen]_vars

(***************************************************************************)
(* solver/executor.rs: run distributes the items over the slots and the    *)
(* pending list and starts one run_internal per slot.  A step of a worker  *)
(* is everything it does up to its next mutex acquisition, its next access *)
(* to a completed flag or its send.                                        *)
(***************************************************************************)
Workers == 0..thread_count - 1

\* the thread ids any run of the model can have
Threads == 0..MaxThreads - 1

\* the item lists tried: distinct pieces of the table, in any order
ItemLists ==
    {l \in SeqsUpTo(PieceIds, MaxItems) :
        Len(l) >= 1 /\ \A i, j \in 1..Len(l) : i # j => l[i] # l[j]}

\* the pending mutex, as a member of poisoned (the slot mutexes are 0, 1, ...)
PendingMutex == -1

\* run, lines 10-45: the state when the workers start, for an item list of
\* the given set and a requested thread count up to the given one
RunFrom(lists, most) ==
    /\ GenIdle
    /\ FnIdle
    /\ items \in lists
    /\ hashes \in {h \in [PieceIds -> 0..HashMod - 1] :
                     \A q \in PieceIds :
                        (\A i \in 1..Len(items) : items[i] # q) => h[q] = 0}
    /\ target_split \in 1..MaxSplit
    /\ \E requested \in 0..most :
          thread_count = Max(Min(Len(items), requested), 1)
    /\ active = [i \in Workers |-> Some(NewTask(items[Len(items) - i]))]
    /\ pending = [i \in 1..Len(items) - thread_count |-> NewTask(items[i])]
    /\ completed = [q \in PieceIds |-> FALSE]
    /\ pending_lock = None
    /\ slot_lock = [i \in Workers |-> None]
    /\ wpc = [w \in Workers |-> "take"]
    /\ current_thread_id = [w \in Workers |-> w]
    /\ choice_consumer = [w \in Workers |-> EmptyConsumer]
    /\ task_state = [w \in Workers |-> None]
    /\ output_bytes = [w \in Workers |-> <<>>]
    /\ output_paths = [w \in Workers |-> <<>>]
    /\ lock_index = [w \in Workers |-> 0]
    /\ chan = <<>>
    /\ sent = [q \in PieceIds |-> <<>>]
    /\ retired = {}
    /\ poisoned = {}
    /\ io_failed = {}

RunStarted == RunFrom(ItemLists, MaxThreads)

\* every file of the catalog can be read
Init == RunStarted /\ unreadable = {}

\* one cataloged file cannot be opened: path 1 is a candidate of pieces 1 and
\* 2, path 3 a candidate of pieces 2 and 4
InitIo == RunStarted /\ unreadable \in {{1}, {3}}

\* the first take of a task panics in preload (line 60)
TakeFails(w) ==
    LET guard == active[current_thread_id[w]]
    IN /\ guard # None
       /\ ~Unwrap(guard).initialized
       /\ PreloadFails(Unwrap(guard).piece_id)

\* the loop of solve panics on the open of line 200
SolveFails(w) ==
    /\ ~choice_consumer[w].ended
    /\ ~completed[Unwrap(task_state[w])]
    /\ ReadFails(Unwrap(task_state[w]), choice_consumer[w])

\* run_internal, lines 59-74: lock the current slot, take, clear the slot when
\* take returns None, unlock
TakeStep(w) ==
    LET cur == current_thread_id[w]
        guard == active[cur]
        r == TaskTake(Unwrap(guard), target_split,
                      completed[Unwrap(guard).piece_id], choice_consumer[w])
    IN /\ w \in Workers
       /\ wpc[w] = "take"
       /\ slot_lock[cur] = None
       /\ cur \notin poisoned
       /\ ~TakeFails(w)
       /\ IF guard = None
          THEN /\ wpc' = [wpc EXCEPT ![w] = "lock_pending"]
               /\ UNCHANGED <<active, choice_consumer, task_state, retired>>
          ELSE IF r.item = None
          THEN /\ active' = [active EXCEPT ![cur] = None]
               /\ retired' = retired \cup {Unwrap(guard).piece_id}
               /\ wpc' = [wpc EXCEPT ![w] = "lock_pending"]
               /\ UNCHANGED <<choice_consumer, task_state>>
          ELSE /\ active' = [active EXCEPT ![cur] = Some(r.task)]
               /\ choice_consumer' = [choice_consumer EXCEPT ![w] = r.consumer]
               /\ task_state' = [task_state EXCEPT ![w] = r.item]
               /\ wpc' = [wpc EXCEPT ![w] = "solve"]
               /\ UNCHANGED retired
       /\ UNCHANGED <<items, hashes, target_split, thread_count, pending, completed,
                      pending_lock, slot_lock, current_thread_id, output_bytes,
                      output_paths, lock_index, chan, sent,
                   iovars, gvars, ovars>>

\* mutant: the loop of solve does not load the completed flag (lines 180-182
\* dropped)
SolveTop_NoCompletedCheck(w) ==
    LET piece_id == Unwrap(task_state[w])
        out == BuildOutput(piece_id, choice_consumer[w])
    IN /\ w \in Workers
       /\ wpc[w] = "solve"
       /\ ~SolveFails(w)
       /\ IF choice_consumer[w].ended
          THEN /\ wpc' = [wpc EXCEPT ![w] = "take"]
               /\ UNCHANGED <<output_bytes, output_paths>>
          ELSE /\ wpc' = [wpc EXCEPT ![w] = "hash"]
               /\ output_bytes' = [output_bytes EXCEPT ![w] = out.bytes]
               /\ output_paths' = [output_paths EXCEPT ![w] = out.paths]
       /\ UNCHANGED <<items, hashes, target_split, thread_count, pending, active,
                      completed, pending_lock, slot_lock, current_thread_id,
                      choice_consumer, task_state, lock_index, chan, sent, retired,
                      iovars, gvars, ovars>>

\* Solver::solve, lines 175-207: the loop test, the clears, the load of the
\* completed flag and the assembly of the buffer for the current choice
SolveTop(w) ==
    LET piece_id == Unwrap(task_state[w])
        out == BuildOutput(piece_id, choice_consumer[w])
    IN /\ w \in Workers
       /\ wpc[w] = "solve"
       /\ ~SolveFails(w)
       /\ IF choice_consumer[w].ended
          THEN /\ wpc' = [wpc EXCEPT ![w] = "take"]
               /\ UNCHANGED <<output_bytes, output_paths>>
          ELSE IF completed[piece_id]
          THEN /\ wpc' = [wpc EXCEPT ![w] = "take"]
               /\ output_bytes' = [output_bytes EXCEPT ![w] = <<>>]
               /\ output_paths' = [output_paths EXCEPT ![w] = <<>>]
          ELSE /\ wpc' = [wpc EXCEPT ![w] = "hash"]
               /\ output_bytes' = [output_bytes EXCEPT ![w] = out.bytes]
               /\ output_paths' = [output_paths EXCEPT ![w] = out.paths]
       /\ UNCHANGED <<items, hashes, target_split, thread_count, pending, active,
                      completed, pending_lock, slot_lock, current_thread_id,
                      choice_consumer, task_state, lock_index, chan, sent, retired,
                      iovars, gvars, ovars>>

\* mutant: a matching hash sets the flag and sends, whatever the flag was
SolveCompare_NoCas(w) ==
    LET piece_id == Unwrap(task_state[w])
    IN /\ w \in Workers
       /\ wpc[w] = "hash"
       /\ IF Hash20(output_bytes[w]) = hashes[piece_id]
          THEN /\ completed' = [completed EXCEPT ![piece_id] = TRUE]
               /\ wpc' = [wpc EXCEPT ![w] = "send"]
               /\ UNCHANGED choice_consumer
          ELSE /\ choice_consumer' =
                     [choice_consumer EXCEPT ![w] = ConsumerNext(choice_consumer[w])]
               /\ wpc' = [wpc EXCEPT ![w] = "solve"]
               /\ UNCHANGED completed
       /\ UNCHANGED <<items, hashes, target_split, thread_count, pending, active,
                      pending_lock, slot_lock, current_thread_id, task_state,
                      output_bytes, output_paths, lock_index, chan, sent, retired,
                      iovars, gvars, ovars>>

\* Solver::solve, lines 209-217 and 235: hash, compare, compare_exchange;
\* "send" when the exchange succeeded, else choices.next()
SolveCompare(w) ==
    LET piece_id == Unwrap(task_state[w])
    IN /\ w \in Workers
       /\ wpc[w] = "hash"
       /\ IF Hash20(output_bytes[w]) = hashes[piece_id] /\ ~completed[piece_id]
          THEN /\ completed' = [completed EXCEPT ![piece_id] = TRUE]
               /\ wpc' = [wpc EXCEPT ![w] = "send"]
               /\ UNCHANGED choice_consumer
          ELSE /\ choice_consumer' =
                     [choice_consumer EXCEPT ![w] = ConsumerNext(choice_consumer[w])]
               /\ wpc' = [wpc EXCEPT ![w] = "solve"]
               /\ UNCHANGED completed
       /\ UNCHANGED <<items, hashes, target_split, thread_count, pending, active,
                      pending_lock, slot_lock, current_thread_id, task_state,
                      output_bytes, output_paths, lock_index, chan, sent, retired,
                      iovars, gvars, ovars>>

\* Solver::solve, lines 219-231: the send on the bounded channel (it blocks while
\* the channel is full), then break
Send(w) ==
    LET piece_update == PieceUpdate(Unwrap(task_state[w]), TRUE, FALSE,
                                    Some(output_bytes[w]), Some(output_paths[w]))
    IN /\ w \in Workers
       /\ wpc[w] = "send"
       /\ Len(chan) < ChanCap
       /\ chan' = Append(chan, piece_update)
       /\ sent' = [sent EXCEPT ![piece_update.piece_id] = Append(@, piece_update)]
       /\ wpc' = [wpc EXCEPT ![w] = "take"]
       /\ UNCHANGED <<items, hashes, target_split, thread_count, pending, active,
                      completed, pending_lock, slot_lock, current_thread_id,
                      choice_consumer, task_state, output_bytes, output_paths,
                      lock_index, retired,
                   iovars, gvars, ovars>>

\* the receiving end of the channel: the writer takes the oldest update
WriterRecv ==
    /\ chan # <<>>
    /\ chan' = Tail(chan)
    /\ UNCHANGED <<items, hashes, target_split, thread_count, pending, active,
                   completed, pending_lock, slot_lock, wpc, current_thread_id,
                   choice_consumer, task_state, output_bytes, output_paths,
                   lock_index, sent, retired,
                   iovars, gvars, ovars>>

\* run_internal, lines 81-83: lock pending
LockPending(w) ==
    /\ w \in Workers
    /\ wpc[w] = "lock_pending"
    /\ pending_lock = None
    /\ PendingMutex \notin poisoned
    /\ pending_lock' = Some(w)
    /\ wpc' = [wpc EXCEPT ![w] = "lock_local"]
    /\ UNCHANGED <<items, hashes, target_split, thread_count, pending, active,
                   completed, slot_lock, current_thread_id, choice_consumer,
                   task_state, output_bytes, output_paths, lock_index, chan, sent,
                   retired,
                   iovars, gvars, ovars>>

\* mutant: a worker whose slot and pending are empty terminates without
\* looking at the other slots
LockLocal_NoSteal(w) ==
    /\ w \in Workers
    /\ wpc[w] = "lock_local"
    /\ slot_lock[w] = None
    /\ w \notin poisoned
    /\ IF active[w] # None
       THEN /\ wpc' = [wpc EXCEPT ![w] = "take"]
            /\ UNCHANGED <<pending, active>>
       ELSE IF pending # <<>>
       THEN /\ active' = [active EXCEPT ![w] = Some(pending[Len(pending)])]
            /\ pending' = SubSeq(pending, 1, Len(pending) - 1)
            /\ wpc' = [wpc EXCEPT ![w] = "take"]
       ELSE /\ wpc' = [wpc EXCEPT ![w] = "done"]
            /\ UNCHANGED <<pending, active>>
    /\ pending_lock' = None
    /\ UNCHANGED <<items, hashes, target_split, thread_count, completed, slot_lock,
                   lock_index, current_thread_id, choice_consumer, task_state,
                   output_bytes, output_paths, chan, sent, retired,
                   iovars, gvars, ovars>>

\* mutant: the continue of line 98 keeps the guard of the pending mutex
LockLocal_KeepPending(w) ==
    /\ w \in Workers
    /\ wpc[w] = "lock_local"
    /\ slot_lock[w] = None
    /\ w \notin poisoned
    /\ IF active[w] # None
       THEN /\ pending_lock' = None
            /\ wpc' = [wpc EXCEPT ![w] = "take"]
            /\ UNCHANGED <<pending, active, slot_lock, lock_index>>
       ELSE IF pending # <<>>
       THEN /\ active' = [active EXCEPT ![w] = Some(pending[Len(pending)])]
            /\ pending' = SubSeq(pending, 1, Len(pending) - 1)
            /\ wpc' = [wpc EXCEPT ![w] = "take"]
            /\ UNCHANGED <<pending_lock, slot_lock, lock_index>>
       ELSE /\ slot_lock' = [slot_lock EXCEPT ![w] = Some(w)]
            /\ lock_index' = [lock_index EXCEPT ![w] = IF w = 0 THEN 1 ELSE 0]
            /\ wpc' = [wpc EXCEPT ![w] = "lock_others"]
            /\ UNCHANGED <<pending, active, pending_lock>>
    /\ UNCHANGED <<items, hashes, target_split, thread_count, completed,
                   current_thread_id, choice_consumer, task_state, output_bytes,
                   output_paths, chan, sent, retired,
                   iovars, gvars, ovars>>

\* run_internal, lines 85-99: lock the own slot; continue when it is occupied
\* or when a pending task could be put into it (both guards are dropped)
LockLocal(w) ==
    /\ w \in Workers
    /\ wpc[w] = "lock_local"
    /\ slot_lock[w] = None
    /\ w \notin poisoned
    /\ IF active[w] # None
       THEN /\ pending_lock' = None
            /\ wpc' = [wpc EXCEPT ![w] = "take"]
            /\ UNCHANGED <<pending, active, slot_lock, lock_index>>
       ELSE IF pending # <<>>
       THEN /\ active' = [active EXCEPT ![w] = Some(pending[Len(pending)])]
            /\ pending' = SubSeq(pending, 1, Len(pending) - 1)
            /\ pending_lock' = None
            /\ wpc' = [wpc EXCEPT ![w] = "take"]
            /\ UNCHANGED <<slot_lock, lock_index>>
       ELSE /\ slot_lock' = [slot_lock EXCEPT ![w] = Some(w)]
            /\ lock_index' = [lock_index EXCEPT ![w] = IF w = 0 THEN 1 ELSE 0]
            /\ wpc' = [wpc EXCEPT ![w] = "lock_others"]
            /\ UNCHANGED <<pending, active, pending_lock>>
    /\ UNCHANGED <<items, hashes, target_split, thread_count, completed,
                   current_thread_id, choice_consumer, task_state, output_bytes,
                   output_paths, chan, sent, retired,
                   iovars, gvars, ovars>>

\* run_internal, lines 104-120: lock the next of the other slots, in index order
LockOther(w) ==
    LET thread_index == lock_index[w]
    IN /\ w \in Workers
       /\ wpc[w] = "lock_others"
       /\ thread_index < thread_count
       /\ slot_lock[thread_index] = None
       /\ thread_index \notin poisoned
       /\ slot_lock' = [slot_lock EXCEPT ![thread_index] = Some(w)]
       /\ lock_index' = [lock_index EXCEPT ![w] =
              IF thread_index + 1 = w THEN thread_index + 2 ELSE thread_index + 1]
       /\ UNCHANGED <<items, hashes, target_split, thread_count, pending, active,
                      completed, pending_lock, wpc, current_thread_id,
                      choice_consumer, task_state, output_bytes, output_paths,
                      chan, sent, retired,
                   iovars, gvars, ovars>>

\* lines 123-128: the tasks left in the slots, in slot order
RECURSIVE Remaining(_, _)
Remaining(slots, i) ==
    IF i >= thread_count THEN <<>>
    ELSE slots[i] \o Remaining(slots, i + 1)

\* mutant: the assignment starts one task too late and loses the first task
Redistribute_Shifted(remaining) ==
    [i \in Workers |->
        IF i + 1 < Len(remaining) THEN Some(remaining[i + 2]) ELSE None]

\* mutant: the remaining tasks are put back into the last slots
Redistribute_LastSlots(remaining) ==
    [i \in Workers |->
        IF i >= thread_count - Len(remaining)
        THEN Some(remaining[i - (thread_count - Len(remaining)) + 1]) ELSE None]

\* lines 137-139: the remaining tasks put back, one per slot from slot 0 on
Redistribute(remaining) ==
    [i \in Workers |-> IF i < Len(remaining) THEN Some(remaining[i + 1]) ELSE None]

\* mutant: after a redistribution the guard of the pending mutex is kept
Steal_KeepPending(w) ==
    LET remaining == Remaining(active, 0)
        remaining_work_len == Len(remaining)
    IN /\ w \in Workers
       /\ wpc[w] = "lock_others"
       /\ lock_index[w] >= thread_count
       /\ IF remaining_work_len = 0
          THEN /\ wpc' = [wpc EXCEPT ![w] = "done"]
               /\ pending_lock' = None
               /\ UNCHANGED <<active, current_thread_id>>
          ELSE /\ active' = Redistribute(remaining)
               /\ current_thread_id' =
                     [current_thread_id EXCEPT ![w] = w % remaining_work_len]
               /\ wpc' = [wpc EXCEPT ![w] = "take"]
               /\ UNCHANGED pending_lock
       /\ slot_lock' = [i \in Workers |-> None]
       /\ UNCHANGED <<items, hashes, target_split, thread_count, pending, completed,
                      choice_consumer, task_state, output_bytes, output_paths,
                      lock_index, chan, sent, retired,
                   iovars, gvars, ovars>>

\* mutant: after a redistribution the worker draws from the slot after its own
Steal_NextSlot(w) ==
    LET remaining == Remaining(active, 0)
        remaining_work_len == Len(remaining)
    IN /\ w \in Workers
       /\ wpc[w] = "lock_others"
       /\ lock_index[w] >= thread_count
       /\ IF remaining_work_len = 0
          THEN /\ wpc' = [wpc EXCEPT ![w] = "done"]
               /\ UNCHANGED <<active, current_thread_id>>
          ELSE /\ active' = Redistribute(remaining)
               /\ current_thread_id' =
                     [current_thread_id EXCEPT ![w] = (w + 1) % thread_count]
               /\ wpc' = [wpc EXCEPT ![w] = "take"]
       /\ pending_lock' = None
       /\ slot_lock' = [i \in Workers |-> None]
       /\ UNCHANGED <<items, hashes, target_split, thread_count, pending, completed,
                      choice_consumer, task_state, output_bytes, output_paths,
                      lock_index, chan, sent, retired,
                   iovars, gvars, ovars>>

\* run_internal, lines 122-141, with every slot locked: collect the remaining
\* tasks, terminate when there is none, else redistribute them and pick the slot
\* to draw from; the guards are dropped either way
Steal(w) ==
    LET remaining == Remaining(active, 0)
        remaining_work_len == Len(remaining)
    IN /\ w \in Workers
       /\ wpc[w] = "lock_others"
       /\ lock_index[w] >= thread_count
       /\ IF remaining_work_len = 0
          THEN /\ wpc' = [wpc EXCEPT ![w] = "done"]
               /\ UNCHANGED <<active, current_thread_id>>
          ELSE /\ active' = Redistribute(remaining)
               /\ current_thread_id' =
                     [current_thread_id EXCEPT ![w] = w % remaining_work_len]
               /\ wpc' = [wpc EXCEPT ![w] = "take"]
       /\ pending_lock' = None
       /\ slot_lock' = [i \in Workers |-> None]
       /\ UNCHANGED <<items, hashes, target_split, thread_count, pending, completed,
                      choice_consumer, task_state, output_bytes, output_paths,
                      lock_index, chan, sent, retired,
                   iovars, gvars, ovars>>

\* one step of run_internal(thread_id = w)
RunInternal(w) ==
    \/ TakeStep(w)
    \/ SolveTop(w)
    \/ SolveCompare(w)
    \/ Send(w)
    \/ LockPending(w)
    \/ LockLocal(w)
    \/ LockOther(w)
    \/ Steal(w)

Next == WriterRecv \/ \E w \in Threads : RunInternal(w)

\* run_internal, lines 60-67: lock().unwrap() panics on a poisoned slot, or
\* take panics in preload and poisons the slot whose guard it holds
PanicTake(w) ==
    LET cur == current_thread_id[w]
    IN /\ w \in Workers
       /\ wpc[w] = "take"
       /\ slot_lock[cur] = None
       /\ cur \in poisoned \/ TakeFails(w)
       /\ wpc' = [wpc EXCEPT ![w] = "panicked"]
       /\ poisoned' = poisoned \cup {cur}
       /\ io_failed' = IF cur \in poisoned THEN io_failed
                       ELSE io_failed \cup {Unwrap(active[cur]).piece_id}
       /\ UNCHANGED <<items, hashes, target_split, thread_count, pending, active,
                      completed, pending_lock, slot_lock, current_thread_id,
                      choice_consumer, task_state, output_bytes, output_paths,
                      lock_index, chan, sent, retired, unreadable, gvars, ovars>>

\* Solver::solve, line 200: the open of a candidate panics; no guard is held
PanicSolve(w) ==
    /\ w \in Workers
    /\ wpc[w] = "solve"
    /\ SolveFails(w)
    /\ wpc' = [wpc EXCEPT ![w] = "panicked"]
    /\ io_failed' = io_failed \cup {Unwrap(task_state[w])}
    /\ UNCHANGED <<items, hashes, target_split, thread_count, pending, active,
                   completed, pending_lock, slot_lock, current_thread_id,
                   choice_consumer, task_state, output_bytes, output_paths,
                   lock_index, chan, sent, retired, unreadable, poisoned, gvars,
                   ovars>>

\* the mutex the worker is about to lock in the rebalance path
NextMutex(w) ==
    IF wpc[w] = "lock_pending" THEN PendingMutex
    ELSE IF wpc[w] = "lock_local" THEN w
    ELSE lock_index[w]

\* the guards the worker holds
HeldMutexes(w) ==
    {i \in Workers : slot_lock[i] = Some(w)}
    \cup (IF pending_lock = Some(w) THEN {PendingMutex} ELSE {})

\* run_internal, lines 81-117: lock().unwrap() panics on a poisoned mutex; the
\* guards held are dropped by the unwinding, which poisons their mutexes
\* (with two workers only the locks of lines 104-117 can meet a poisoned mutex)
PanicLock(w) ==
    /\ w \in Workers
    /\ wpc[w] \in {"lock_pending", "lock_local", "lock_others"}
    /\ wpc[w] = "lock_others" => lock_index[w] < thread_count
    /\ NextMutex(w) \in poisoned
    /\ IF NextMutex(w) = PendingMutex THEN pending_lock = None
       ELSE slot_lock[NextMutex(w)] = None
    /\ wpc' = [wpc EXCEPT ![w] = "panicked"]
    /\ poisoned' = poisoned \cup HeldMutexes(w)
    /\ pending_lock' = IF pending_lock = Some(w) THEN None ELSE pending_lock
    /\ slot_lock' = [i \in Workers |->
                        IF slot_lock[i] = Some(w) THEN None ELSE slot_lock[i]]
    /\ UNCHANGED <<items, hashes, target_split, thread_count, pending, active,
                   completed, current_thread_id, choice_consumer, task_state,
                   output_bytes, output_paths, lock_index, chan, sent, retired,
                   unreadable, io_failed, gvars, ovars>>

\* a step of a run in which reads can fail
NextIo ==
    \/ Next
    \/ \E w \in Threads : PanicTake(w) \/ PanicSolve(w) \/ PanicLock(w)

Spec == Init /\ [][Next]_vars

\* the lists of one item more than the longest of ItemLists, of pieces with
\* a single segment
LongLists ==
    {l \in SeqsUpTo({q \in PieceIds : Len(PieceFiles[q]) = 1}, MaxItems + 1) :
        Len(l) = MaxItems + 1 /\ \A i, j \in 1..Len(l) : i # j => l[i] # l[j]}

\* run, lines 10-45, for the long lists, given to as many workers as there are
\* items, with one expected digest for all pieces
InitLong ==
    /\ RunFrom(LongLists, MaxThreads + 1)
    /\ thread_count = MaxThreads + 1
    /\ target_split = 1
    /\ \A i, j \in 1..Len(items) : hashes[items[i]] = hashes[items[j]]
    /\ unreadable = {}

NextLong == WriterRecv \/ \E w \in 0..MaxThreads : RunInternal(w)

SpecLong == InitLong /\ [][NextLong]_vars

SpecIo == InitIo /\ [][NextIo]_vars

\* every thread that can run keeps running, and the writer keeps receiving
SpecFair ==
    /\ Spec
    /\ WF_vars(WriterRecv)
    /\ \A w \in Threads : WF_vars(RunInternal(w))

(***************************************************************************)
(* bencode/parser.rs.  Bytes are their ASCII codes.  A Result is a record: *)
(* Ok(token), Err(MalformedData), or a panic of the thread.  The loops of  *)
(* the four decoders are recursive operators over (position, state, ...).  *)
(***************************************************************************)
Byte == [minus |-> 45, zero |-> 48, one |-> 49, nine |-> 57, colon |-> 58,
         a |-> 97, b |-> 98, d |-> 100, e |-> 101, i |-> 105, l |-> 108]

\* i128 and usize, scaled down to IntBits and WordBits bits: as in the code an
\* integer token can hold values that a machine word cannot
IntBits == 6
WordBits == 4
IntMax == 2 ^ (IntBits - 1) - 1
IntMin == -(2 ^ (IntBits - 1))
WordMax == 2 ^ WordBits - 1

Ok(token) == [ok |-> TRUE, token |-> token]
MalformedData == [ok |-> FALSE, kind |-> "MalformedData"]
Panicked == [ok |-> FALSE, kind |-> "panic"]

IsDigit(byte) == byte \in Byte.zero..Byte.nine

\* the same with wrapping-free, unchecked arithmetic
CheckedMulAdd_Unchecked(result, digit, lo, hi) == Some(result * 10 + digit)

\* checked_mul(10) followed by checked_add / checked_sub of a digit: None on
\* leaving [lo, hi]
CheckedMulAdd(result, digit, lo, hi) ==
    IF result * 10 < lo \/ result * 10 > hi THEN None
    ELSE IF result * 10 + digit < lo \/ result * 10 + digit > hi THEN None
    ELSE Some(result * 10 + digit)

\* the loop of decode_integer
RECURSIVE IntegerLoop(_, _, _, _, _)
IntegerLoop(bytes, start_position, position, result, state) ==
    IF position >= Len(bytes) THEN MalformedData
    ELSE LET byte == bytes[position + 1]
         IN CASE state = "Digit" ->
                   IF IsDigit(byte)
                   THEN LET next == CheckedMulAdd(result, byte - Byte.zero, IntMin, IntMax)
                        IN IF next = None THEN MalformedData
                           ELSE IntegerLoop(bytes, start_position, position + 1,
                                            Unwrap(next), state)
                   ELSE IF byte = Byte.e
                   THEN Ok([kind |-> "Integer", value |-> result,
                            start_position |-> start_position,
                            continuation_position |-> position + 1])
                   ELSE MalformedData
              [] state = "NegativeDigit" ->
                   IF IsDigit(byte)
                   THEN LET next == CheckedMulAdd(result, -(byte - Byte.zero), IntMin, IntMax)
                        IN IF next = None THEN MalformedData
                           ELSE IntegerLoop(bytes, start_position, position + 1,
                                            Unwrap(next), state)
                   ELSE IF byte = Byte.e
                   THEN Ok([kind |-> "Integer", value |-> result,
                            start_position |-> start_position,
                            continuation_position |-> position + 1])
                   ELSE MalformedData
              [] state = "NonZeroDigit" ->
                   IF byte \in Byte.one..Byte.nine
                   THEN IntegerLoop(bytes, start_position, position + 1,
                                    -(byte - Byte.zero), "NegativeDigit")
                   ELSE MalformedData
              [] state = "StopCharacter" ->
                   IF byte = Byte.e
                   THEN Ok([kind |-> "Integer", value |-> result,
                            start_position |-> start_position,
                            continuation_position |-> position + 1])
                   ELSE MalformedData
              [] state = "FirstDigit" ->
                   IF byte \in Byte.one..Byte.nine
                   THEN IntegerLoop(bytes, start_position, position + 1,
                                    byte - Byte.zero, "Digit")
                   ELSE IF byte = Byte.zero
                   THEN IntegerLoop(bytes, start_position, position + 1, 0,
                                    "StopCharacter")
                   ELSE IF byte = Byte.minus
                   THEN IntegerLoop(bytes, start_position, position + 1, result,
                                    "NonZeroDigit")
                   ELSE MalformedData
              [] state = "StartCharacter" ->
                   IF byte = Byte.i
                   THEN IntegerLoop(bytes, start_position, position + 1, result,
                                    "FirstDigit")
                   ELSE MalformedData

DecodeInteger(bytes, start_position) ==
    IntegerLoop(bytes, start_position, start_position, 0, "StartCharacter")

\* the loop of decode_string; position + characters_to_read is a usize sum:
\* past WordMax it panics (overflow check) or wraps below position, and the
\* slice bytes[position..wrapped] panics
RECURSIVE StringLoop(_, _, _, _, _)
StringLoop(bytes, start_position, position, characters_to_read, state) ==
    IF position >= Len(bytes) THEN MalformedData
    ELSE LET byte == bytes[position + 1]
         IN CASE state = "Character" ->
                   IF position + characters_to_read > WordMax THEN Panicked
                   ELSE IF position + characters_to_read > Len(bytes)
                   THEN MalformedData
                   ELSE Ok([kind |-> "String",
                            value |-> SubSeq(bytes, position + 1,
                                             position + characters_to_read),
                            start_position |-> start_position,
                            continuation_position |-> position + characters_to_read])
              [] state = "DigitOrSeperator" ->
                   IF IsDigit(byte)
                   THEN LET next == CheckedMulAdd(characters_to_read,
                                                  byte - Byte.zero, 0, WordMax)
                        IN IF next = None THEN MalformedData
                           ELSE StringLoop(bytes, start_position, position + 1,
                                           Unwrap(next), "DigitOrSeperator")
                   ELSE IF byte = Byte.colon
                   THEN StringLoop(bytes, start_position, position + 1,
                                   characters_to_read, "Character")
                   ELSE MalformedData
              [] state = "Seperator" ->
                   IF byte = Byte.colon /\ characters_to_read = 0
                   THEN Ok([kind |-> "String", value |-> <<>>,
                            start_position |-> start_position,
                            continuation_position |-> position + 1])
                   ELSE MalformedData
              [] state = "FirstDigit" ->
                   IF byte = Byte.zero
                   THEN StringLoop(bytes, start_position, position + 1, 0, "Seperator")
                   ELSE IF byte \in Byte.one..Byte.nine
                   THEN StringLoop(bytes, start_position, position + 1,
                                   byte - Byte.zero, "DigitOrSeperator")
                   ELSE MalformedData

DecodeString(bytes, start_position) ==
    StringLoop(bytes, start_position, start_position, 0, "FirstDigit")

\* Vec<u8>::cmp: "Less", "Equal" or "Greater", byte-lexicographic
RECURSIVE Cmp(_, _)
Cmp(x, y) ==
    IF x = <<>> THEN (IF y = <<>> THEN "Equal" ELSE "Less")
    ELSE IF y = <<>> THEN "Greater"
    ELSE IF Head(x) < Head(y) THEN "Less"
    ELSE IF Head(x) > Head(y) THEN "Greater"
    ELSE Cmp(Tail(x), Tail(y))

\* the bytes on which the list and dictionary loops call decode_any
StartsToken(byte) == IsDigit(byte) \/ byte \in {Byte.i, Byte.l, Byte.d}

RECURSIVE DecodeAny(_, _), ListLoop(_, _, _, _, _), DictionaryLoop(_, _, _, _, _, _)

\* the loop of decode_list
ListLoop(bytes, start_position, position, tokens, state) ==
    IF position >= Len(bytes) THEN MalformedData
    ELSE LET byte == bytes[position + 1]
         IN CASE state = "Entry" ->
                   IF StartsToken(byte)
                   THEN LET token == DecodeAny(bytes, position)
                        IN IF ~token.ok THEN token
                           ELSE ListLoop(bytes, start_position,
                                         token.token.continuation_position,
                                         Append(tokens, token.token), state)
                   ELSE IF byte = Byte.e
                   THEN Ok([kind |-> "List", value |-> tokens,
                            start_position |-> start_position,
                            continuation_position |-> position + 1])
                   ELSE MalformedData
              [] state = "Start" ->
                   IF byte = Byte.l
                   THEN ListLoop(bytes, start_position, position + 1, tokens, "Entry")
                   ELSE MalformedData

DecodeList(bytes, start_position) ==
    ListLoop(bytes, start_position, start_position, <<>>, "Start")

\* mutant: the keys are not compared with the previous key (lines 358-369
\* dropped)
KeyOrderError_NoCheck(keys, token) == FALSE

\* lines 358-369 of decode_dictionary: the new key is not above the last one
KeyOrderError(keys, token) ==
    /\ keys # <<>>
    /\ Cmp(keys[Len(keys)].value, token.value) # "Less"

\* the loop of decode_dictionary
DictionaryLoop(bytes, start_position, position, keys, values, state) ==
    IF position >= Len(bytes) THEN MalformedData
    ELSE LET byte == bytes[position + 1]
         IN CASE state = "KeyEntry" ->
                   IF IsDigit(byte)
                   THEN LET token == DecodeString(bytes, position)
                        IN IF ~token.ok THEN token
                           ELSE IF KeyOrderError(keys, token.token) THEN MalformedData
                           ELSE DictionaryLoop(bytes, start_position,
                                               token.token.continuation_position,
                                               Append(keys, token.token), values,
                                               "ValueEntry")
                   ELSE IF byte = Byte.e
                   THEN Ok([kind |-> "Dictionary", keys |-> keys, values |-> values,
                            start_position |-> start_position,
                            continuation_position |-> position + 1])
                   ELSE MalformedData
              [] state = "ValueEntry" ->
                   IF StartsToken(byte)
                   THEN LET token == DecodeAny(bytes, position)
                        IN IF ~token.ok THEN token
                           ELSE DictionaryLoop(bytes, start_position,
                                               token.token.continuation_position,
                                               keys, Append(values, token.token),
                                               "KeyEntry")
                   ELSE MalformedData
              [] state = "Start" ->
                   IF byte = Byte.d
                   THEN DictionaryLoop(bytes, start_position, position + 1, keys,
                                       values, "KeyEntry")
                   ELSE MalformedData

DecodeDictionary(bytes, start_position) ==
    DictionaryLoop(bytes, start_position, start_position, <<>>, <<>>, "Start")

DecodeAny(bytes, start_position) ==
    IF start_position >= Len(bytes) THEN MalformedData
    ELSE LET byte == bytes[start_position + 1]
         IN IF IsDigit(byte) THEN DecodeString(bytes, start_position)
            ELSE IF byte = Byte.i THEN DecodeInteger(bytes, start_position)
            ELSE IF byte = Byte.l THEN DecodeList(bytes, start_position)
            ELSE IF byte = Byte.d THEN DecodeDictionary(bytes, start_position)
            ELSE MalformedData

\* mutant: decode returns the first token whatever follows it
Decode_NoRemainingCheck(bytes) == DecodeAny(bytes, 0)

\* Parser::decode
Decode(bytes) ==
    LET token == DecodeAny(bytes, 0)
    IN IF ~token.ok THEN token
       ELSE IF token.token.continuation_position < Len(bytes) THEN MalformedData
       ELSE token

\* the same, hashing from the first byte of the descriptor
InfoHashInput_FromStart(info, bytes) == SubSeq(bytes, 1, info.continuation_position)

\* &bytes[info.start_position..info.continuation_position]
InfoHashInput(info, bytes) ==
    SubSeq(bytes, info.start_position + 1, info.continuation_position)

\* calculate_info_hash: the digest of the range of the info dictionary
CalculateInfoHash(info, bytes) == Hash20(InfoHashInput(info, bytes))

(***************************************************************************)
(* Parser::decode exercised alone, as the tests of parser.rs do: one call   *)
(* per input.                                                              *)
(***************************************************************************)
MaxLen == 4          \* longest input over the whole alphabet
MaxBody == 4         \* longest tail of an integer or string input
MaxFragments == 5    \* most fragments of a structured input

RECURSIVE Flatten(_)
Flatten(seqs) == IF seqs = <<>> THEN <<>> ELSE Head(seqs) \o Flatten(Tail(seqs))

\* Parser::decode is called once.  The inputs: every short byte string over
\* the bytes the decoders distinguish; 'i' followed by signs, digits and 'e';
\* digits, ':' and characters; and the fragments 'd', 'l', 'e', "a", "b", ""
\* and 0 in any order, alone and between 'd' and 'e'.  A slice is never longer
\* than the largest machine word.
InitDecode ==
    LET Digits == Byte.zero..Byte.nine
        ShortInputs ==
            SeqsUpTo({Byte.minus, Byte.zero, Byte.one, Byte.colon, Byte.a, Byte.d,
                      Byte.e, Byte.i, Byte.l}, MaxLen)
        IntegerInputs ==
            {<<Byte.i>> \o body :
                body \in SeqsUpTo(Digits \cup {Byte.minus, Byte.e}, MaxBody)}
        StringInputs == SeqsUpTo(Digits \cup {Byte.colon, Byte.a}, MaxBody)
        Fragments ==
            {<<Byte.d>>, <<Byte.l>>, <<Byte.e>>, <<Byte.one, Byte.colon, Byte.a>>,
             <<Byte.one, Byte.colon, Byte.b>>, <<Byte.zero, Byte.colon>>,
             <<Byte.i, Byte.zero, Byte.e>>}
        StructuredInputs == {Flatten(fs) : fs \in SeqsUpTo(Fragments, MaxFragments)}
        DictionaryInputs ==
            {<<Byte.d>> \o Flatten(fs) \o <<Byte.e>> :
                fs \in SeqsUpTo(Fragments, MaxFragments - 1)}
    IN /\ GenIdle
       /\ ExecIdle
       /\ f_call = "decode"
       /\ f_output = None
       /\ f_input \in
            {bytes \in ShortInputs \cup IntegerInputs \cup StringInputs
                         \cup StructuredInputs \cup DictionaryInputs :
               Len(bytes) <= WordMax}

\* let token = Parser::decode(input);
DecodeCall ==
    /\ f_call = "decode"
    /\ f_output = None
    /\ f_output' = Some(Decode(f_input))
    /\ UNCHANGED <<f_call, f_input, gvars, evars>>

SpecDecode == InitDecode /\ [][DecodeCall]_vars

(***************************************************************************)
(* torrent/torrent.rs: Torrent::info_dictionary and the functions it calls. *)
(* The info dictionary is given by what the find_*_value lookups return:    *)
(* a record of Options, None for a key that is missing or of another kind.  *)
(***************************************************************************)
MantissaBits == 3    \* the 53 significant bits of an f64, scaled down
DigestLen == 2       \* the 20 bytes of a SHA-1 digest, scaled down

\* value as usize of a non-negative integer token: the low WordBits bits
AsUsize(value) == value % (2 ^ WordBits)

\* the integer nearest to num / den, ties to the even one
RoundHalfEven(num, den) ==
    LET q == num \div den
        r == num % den
    IN IF 2 * r < den THEN q
       ELSE IF 2 * r > den THEN q + 1
       ELSE IF q % 2 = 0 THEN q ELSE q + 1

\* num / den (both positive) rounded to an f64: m * 2^(-k) with MantissaBits
\* significant bits
F64Round(num, den) ==
    LET Scaled(k) == [num |-> num * 2 ^ Max(k, 0), den |-> den * 2 ^ Max(-k, 0)]
        k == CHOOSE k \in -(WordBits + 1)..(WordBits + MantissaBits) :
                 /\ Scaled(k).num \div Scaled(k).den >= 2 ^ (MantissaBits - 1)
                 /\ Scaled(k).num \div Scaled(k).den < 2 ^ MantissaBits
    IN [m |-> RoundHalfEven(Scaled(k).num, Scaled(k).den), k |-> k]

\* n as f64, for a usize n
ToF64(n) ==
    IF n = 0 THEN 0
    ELSE LET f == F64Round(n, 1)
         IN IF f.k >= 0 THEN n ELSE f.m * 2 ^ (-f.k)

\* (a as f64 / b as f64).ceil() as usize and .floor() as usize: x / 0.0 is
\* infinite and saturates, 0.0 / 0.0 is NaN and becomes 0
QuotientBound(a, b, up) ==
    IF ToF64(b) = 0 THEN (IF ToF64(a) = 0 THEN 0 ELSE WordMax)
    ELSE IF ToF64(a) = 0 THEN 0
    ELSE LET f == F64Round(ToF64(a), ToF64(b))
             whole == IF f.k <= 0 THEN f.m * 2 ^ (-f.k)
                      ELSE IF up THEN (f.m + 2 ^ f.k - 1) \div 2 ^ f.k
                      ELSE f.m \div 2 ^ f.k
         IN Min(whole, WordMax)

\* Torrent::file_dictionary
FileDictionary(file_token) ==
    IF file_token.length = None THEN MalformedData
    ELSE IF Unwrap(file_token.length) <= 0 THEN MalformedData
    ELSE IF file_token.path = None THEN MalformedData
    ELSE Ok([length |-> AsUsize(Unwrap(file_token.length)),
             path |-> Unwrap(file_token.path)])

\* Torrent::file_list: the first error, or the files
RECURSIVE FileList(_)
FileList(files_token) ==
    IF files_token = <<>> THEN Ok(<<>>)
    ELSE LET file_result == FileDictionary(Head(files_token))
             rest == FileList(Tail(files_token))
         IN IF ~file_result.ok THEN file_result
            ELSE IF ~rest.ok THEN rest
            ELSE Ok(<<file_result.token>> \o rest.token)

\* multiple.iter().map(|file| file.length).sum(): None when the usize sum
\* overflows
RECURSIVE CheckedSum(_)
CheckedSum(files) ==
    IF files = <<>> THEN Some(0)
    ELSE LET rest == CheckedSum(SubSeq(files, 1, Len(files) - 1))
         IN IF rest = None THEN None
            ELSE IF Unwrap(rest) + files[Len(files)].length > WordMax THEN None
            ELSE Some(Unwrap(rest) + files[Len(files)].length)

\* the same sum without overflow checks
RECURSIVE WrappingSum(_)
WrappingSum(files) ==
    IF files = <<>> THEN 0
    ELSE AsUsize(WrappingSum(Tail(files)) + Head(files).length)

\* lines 153-161 of info_dictionary
PieceCountError(total_size, piece_length, pieces) ==
    LET upper_bound == QuotientBound(total_size, piece_length, TRUE)
        lower_bound == QuotientBound(total_size, piece_length, FALSE)
        pieces_count == QuotientBound(Len(pieces), DigestLen, TRUE)
    IN ~ \/ lower_bound < pieces_count /\ pieces_count <= upper_bound
         \/ lower_bound = pieces_count /\ pieces_count = upper_bound

\* Torrent::info_dictionary; overflow_checks tells a build that panics on
\* arithmetic overflow from one that wraps
InfoDictionary(info, overflow_checks) ==
    IF info.name = None \/ info.piece_length = None \/ info.pieces = None
    THEN MalformedData
    ELSE IF info.length # None /\ info.files # None THEN MalformedData
    ELSE IF info.length = None /\ info.files = None THEN MalformedData
    ELSE IF info.length # None /\ Unwrap(info.length) <= 0 THEN MalformedData
    ELSE LET length == IF info.length = None THEN None
                       ELSE Some(AsUsize(Unwrap(info.length)))
             result == IF info.files = None THEN Ok(<<>>)
                       ELSE FileList(Unwrap(info.files))
         IN IF ~result.ok THEN result
            ELSE IF info.files # None /\ Len(result.token) = 0 THEN MalformedData
            ELSE IF Unwrap(info.piece_length) <= 0 THEN MalformedData
            ELSE IF Len(Unwrap(info.pieces)) = 0 THEN MalformedData
            ELSE IF /\ info.files # None
                    /\ overflow_checks
                    /\ CheckedSum(result.token) = None
            THEN Panicked
            ELSE LET piece_length == AsUsize(Unwrap(info.piece_length))
                     pieces == Unwrap(info.pieces)
                     total_size == IF info.files # None THEN WrappingSum(result.token)
                                   ELSE Unwrap(length)
                 IN IF PieceCountError(total_size, piece_length, pieces)
                    THEN MalformedData
                    ELSE Ok([name |-> Unwrap(info.name),
                             length |-> length,
                             files |-> IF info.files = None THEN None
                                       ELSE Some(result.token),
                             piece_length |-> piece_length,
                             pieces |-> pieces])

MaxFiles == 2        \* most entries of a files list
MaxDigests == 4      \* most digests of a pieces string

\* integer tokens of a descriptor: negative, zero, small, around the largest
\* exactly convertible value 2^MantissaBits, and beyond the machine word
SizeTokens ==
    {-1, 0, 1, 2, 3, 2 ^ MantissaBits, 2 ^ MantissaBits + 1, WordMax + 1, WordMax + 2}

\* info_dictionary is called once, with an info dictionary whose name, piece
\* length and pieces are present
InitInfo ==
    LET FileTokens ==
            [length : {None} \cup {Some(v) : v \in SizeTokens},
             path : {Some(<<<<Byte.a>>>>)}]
    IN /\ GenIdle
       /\ ExecIdle
       /\ f_call = "info_dictionary"
       /\ f_output = None
       /\ f_input \in
            [name : {Some(<<Byte.a>>)},
             length : {None} \cup {Some(v) : v \in SizeTokens \cup {4}},
             files : {None} \cup {Some(fs) : fs \in SeqsUpTo(FileTokens, MaxFiles)},
             piece_length : {Some(v) : v \in SizeTokens},
             pieces : {Some(Zeros(n)) : n \in 0..MaxDigests * DigestLen}]

\* let info = Torrent::info_dictionary(&info_token);
InfoCall ==
    /\ f_call = "info_dictionary"
    /\ f_output = None
    /\ \E overflow_checks \in BOOLEAN :
          f_output' = Some(InfoDictionary(f_input, overflow_checks))
    /\ UNCHANGED <<f_call, f_input, gvars, evars>>

SpecInfo == InitInfo /\ [][InfoCall]_vars

(***************************************************************************)
(* torrent/pieces.rs: Pieces::from_torrent.  In this file info.pieces is    *)
(* the list of digests.                                                    *)
(***************************************************************************)
\* lines 80-83: length += file.read_length over the segments; the sum of a
\* sequence of integers
RECURSIVE SumOf(_)
SumOf(lengths) == IF lengths = <<>> THEN 0 ELSE Head(lengths) + SumOf(Tail(lengths))

\* the same, every segment starting at the beginning of its file
NewPieceFile_FromZero(current, file_index, file_remaining_length, current_remaining) ==
    [read_start_position |-> 0,
     read_length |-> file_remaining_length - current_remaining,
     file_length |-> current.length,
     file_index |-> file_index]

\* lines 61-66: the segment pushed by construct_pieces_multiple_file
NewPieceFile(current, file_index, file_remaining_length, current_remaining) ==
    [read_start_position |-> current.length - file_remaining_length,
     read_length |-> file_remaining_length - current_remaining,
     file_length |-> current.length,
     file_index |-> file_index]

\* the while loop of construct_pieces_multiple_file for one piece; file_index
\* is 0-based, and files[file_index] past the last file panics
RECURSIVE PieceFilesLoop(_, _, _, _, _, _)
PieceFilesLoop(files, piece_length, file_index, file_remaining_length, piece_files, piece_counted_length) ==
    IF ~(piece_counted_length < piece_length)
    THEN [ok |-> TRUE, piece_files |-> piece_files, file_index |-> file_index,
          file_remaining_length |-> file_remaining_length]
    ELSE IF file_index >= Len(files) THEN Panicked
    ELSE LET current == files[file_index + 1]
             remainder == piece_length - piece_counted_length
             fits == file_remaining_length >= remainder
             current_remaining == IF fits THEN file_remaining_length - remainder ELSE 0
             counted == IF fits THEN piece_length
                        ELSE piece_counted_length + file_remaining_length
             pushed == Append(piece_files,
                              NewPieceFile(current, file_index, file_remaining_length,
                                           current_remaining))
         IN IF current_remaining # 0
            THEN PieceFilesLoop(files, piece_length, file_index, current_remaining,
                                pushed, counted)
            ELSE IF file_index + 1 = Len(files)
            THEN [ok |-> TRUE, piece_files |-> pushed, file_index |-> file_index + 1,
                  file_remaining_length |-> 0]
            ELSE PieceFilesLoop(files, piece_length, file_index + 1,
                                files[file_index + 2].length, pushed, counted)

\* the for loop of construct_pieces_multiple_file from the digest at index
\* Len(pieces)
RECURSIVE MultipleFileLoop(_, _, _, _)
MultipleFileLoop(info, pieces, file_index, file_remaining_length) ==
    IF Len(pieces) = Len(info.pieces) THEN Ok(pieces)
    ELSE LET files == Unwrap(info.files)
             one == PieceFilesLoop(files, info.piece_length, file_index,
                                   file_remaining_length, <<>>, 0)
         IN IF ~one.ok THEN one
            ELSE MultipleFileLoop(
                     info,
                     Append(pieces,
                            [position |-> Len(pieces),
                             files |-> one.piece_files,
                             hash |-> info.pieces[Len(pieces) + 1],
                             length |-> SumOf([n \in 1..Len(one.piece_files) |->
                                                  one.piece_files[n].read_length])]),
                     one.file_index, one.file_remaining_length)

\* construct_pieces_multiple_file; files.first().unwrap() panics on no files
ConstructPiecesMultipleFile(info) ==
    IF Unwrap(info.files) = <<>> THEN Panicked
    ELSE MultipleFileLoop(info, <<>>, 0, Unwrap(info.files)[1].length)

\* the for loop of construct_pieces_single_file
RECURSIVE SingleFileLoop(_, _, _, _)
SingleFileLoop(info, pieces, read_start_position, file_remaining_length) ==
    IF Len(pieces) = Len(info.pieces) THEN Ok(pieces)
    ELSE LET read_length == IF file_remaining_length < info.piece_length
                            THEN file_remaining_length ELSE info.piece_length
         IN SingleFileLoop(
                info,
                Append(pieces,
                       [position |-> Len(pieces),
                        files |-> <<[read_start_position |-> read_start_position,
                                     read_length |-> read_length,
                                     file_length |-> Unwrap(info.length),
                                     file_index |-> 0]>>,
                        hash |-> info.pieces[Len(pieces) + 1],
                        length |-> read_length]),
                read_start_position + read_length,
                file_remaining_length - read_length)

\* Pieces::from_torrent
FromTorrent(info) ==
    IF info.length # None
    THEN SingleFileLoop(info, <<>>, 0, Unwrap(info.length))
    ELSE ConstructPiecesMultipleFile(info)

MaxFileLength == 4   \* longest file of a multiple-file torrent
MaxPlanFiles == 3    \* most files of a torrent
MaxPieceLength == 4  \* largest piece length

\* from_torrent is called once, with a torrent that has a single file or a
\* non-empty list of files, a positive piece length, and one digest for each
\* of the ceil(total / piece_length) pieces, the n-th digest made of the byte n
InitPlan ==
    LET Digests(count) == [n \in 1..count |-> [k \in 1..DigestLen |-> n]]
        Total(lengths) == SumOf(lengths)
        Multiple ==
            {[length |-> None,
              files |-> Some([n \in 1..Len(lengths) |->
                                [length |-> lengths[n], path |-> <<<<Byte.a>>>>]]),
              piece_length |-> piece_length,
              pieces |-> Digests((Total(lengths) + piece_length - 1) \div piece_length)] :
                lengths \in SeqsUpTo(0..MaxFileLength, MaxPlanFiles) \ {<<>>},
                piece_length \in 1..MaxPieceLength}
        Single ==
            {[length |-> Some(length),
              files |-> None,
              piece_length |-> piece_length,
              pieces |-> Digests((length + piece_length - 1) \div piece_length)] :
                length \in 1..MaxFileLength * MaxPlanFiles,
                piece_length \in 1..MaxPieceLength}
    IN /\ GenIdle
       /\ ExecIdle
       /\ f_call = "from_torrent"
       /\ f_output = None
       /\ f_input \in Multiple \cup Single

\* let pieces = Pieces::from_torrent(&torrent);
PlanCall ==
    /\ f_call = "from_torrent"
    /\ f_output = None
    /\ f_output' = Some(FromTorrent(f_input))
    /\ UNCHANGED <<f_call, f_input, gvars, evars>>

SpecPlan == InitPlan /\ [][PlanCall]_vars

(***************************************************************************)
(* filesystem/path_interner.rs                                             *)
(*                                                                         *)
(* A path is the sequence of its components, "/" standing for the root     *)
(* directory: PathBuf compares and hashes paths by their components.  An   *)
(* interner is [map, vec, frozen]; a frozen one has lost its map.  While   *)
(* the interner is exercised f_input holds the interner and f_output the   *)
(* last call with what it returned.                                        *)
(***************************************************************************)
MaxCalls == 4   \* most put / get_or_put_clone calls made on one interner

\* the components paths are made of
Names == {"/", "a", "b"}

\* PathInterner::put without the look-up of lines 19-21
InternerPut_NoLookup(interner, path) ==
    [interner |-> [interner EXCEPT
                      !.map = [p \in DOMAIN interner.map \cup {path} |->
                                  IF p = path THEN Len(interner.vec)
                                  ELSE interner.map[p]],
                      !.vec = Append(interner.vec, path)],
     id |-> Len(interner.vec)]

\* PathInterner::put: the interner after the call and the id returned
InternerPut(interner, path) ==
    IF path \in DOMAIN interner.map
    THEN [interner |-> interner, id |-> interner.map[path]]
    ELSE LET next_id == Len(interner.vec)
         IN [interner |-> [interner EXCEPT
                              !.map = [p \in DOMAIN interner.map \cup {path} |->
                                          IF p = path THEN next_id
                                          ELSE interner.map[p]],
                              !.vec = Append(interner.vec, path)],
             id |-> next_id]

\* PathInterner::get_or_put_clone
InternerGetOrPutClone(interner, path) ==
    IF ~(path \in DOMAIN interner.map)
    THEN InternerPut(interner, path)
    ELSE [interner |-> interner, id |-> interner.map[path]]

\* PathInterner::get_by_id and FrozenPathInterner::get
GetById(interner, id) == interner.vec[id + 1]

\* PathInterner::new: an empty interner, on which the calls below are made
InitInterner ==
    /\ GenIdle
    /\ ExecIdle
    /\ f_call = "interner"
    /\ f_input = [map |-> <<>>, vec |-> <<>>, frozen |-> FALSE]
    /\ f_output = None

\* let id = path_interner.put(path);
PutCall ==
    /\ f_call = "interner"
    /\ ~f_input.frozen
    /\ Len(f_input.vec) < MaxCalls
    /\ \E path \in SeqsUpTo(Names, 2) \ {<<>>} :
          LET r == InternerPut(f_input, path)
          IN /\ f_input' = r.interner
             /\ f_output' = Some([call |-> "put", path |-> path, id |-> r.id])
    /\ UNCHANGED <<f_call, gvars, evars>>

\* let id = interner.get_or_put_clone(path);
GetOrPutCloneCall ==
    /\ f_call = "interner"
    /\ ~f_input.frozen
    /\ Len(f_input.vec) < MaxCalls
    /\ \E path \in SeqsUpTo(Names, 2) \ {<<>>} :
          LET r == InternerGetOrPutClone(f_input, path)
          IN /\ f_input' = r.interner
             /\ f_output' = Some([call |-> "get_or_put_clone", path |-> path,
                                  id |-> r.id])
    /\ UNCHANGED <<f_call, gvars, evars>>

\* PathInterner::freeze: the vector moves into the FrozenPathInterner, the
\* map is dropped
FreezeCall ==
    /\ f_call = "interner"
    /\ ~f_input.frozen
    /\ f_input' = [map |-> <<>>, vec |-> f_input.vec, frozen |-> TRUE]
    /\ f_output' = None
    /\ UNCHANGED <<f_call, gvars, evars>>

\* FrozenPathInterner::get, called with an id the interner has assigned
FrozenGetCall ==
    /\ f_call = "interner"
    /\ f_input.frozen
    /\ \E id \in 0..Len(f_input.vec) - 1 :
          f_output' = Some([call |-> "get", path |-> GetById(f_input, id),
                            id |-> id])
    /\ UNCHANGED <<f_call, f_input, gvars, evars>>

NextInterner == PutCall \/ GetOrPutCloneCall \/ FreezeCall \/ FrozenGetCall

SpecInterner == InitInterner /\ [][NextInterner]_vars

(***************************************************************************)
(* filesystem/path_cache.rs                                                *)
(*                                                                         *)
(* The scanned tree is /s with the entries /s/a and /s/b and, when /s/a    *)
(* is a directory or a link to one, /s/a/c.  A node is [kind, length,      *)
(* inode]: kind "file" or "dir" for what the entry is itself;              *)
(* "link_file", "link_dir" and "link_none" for a symbolic link to a        *)
(* regular file, to a directory and to nothing, its length and inode       *)
(* being those of the file it points to; "locked" for a regular file       *)
(* that cannot be opened; "none" for no entry.  While the cache is         *)
(* exercised f_input is [fs, interner, entries, visited_directories] and   *)
(* f_output the last root walked.                                          *)
(***************************************************************************)
MaxInode == 3   \* index nodes of the files on disk: 1..MaxInode

\* Path::starts_with
StartsWith(path, base) ==
    /\ Len(base) <= Len(path)
    /\ SubSeq(path, 1, Len(base)) = base

\* PathCache::to_metadata: File::open follows symbolic links and fails for a
\* dangling link or a file that may not be read; the metadata are those of
\* the file the open reached
ToMetadata(fs, path) ==
    IF fs[path].kind \in {"link_none", "locked", "none"} THEN None
    ELSE Some([file_length |-> fs[path].length, device_node |-> 1,
               index_node |-> fs[path].inode])

\* the entries WalkDir::new(root) yields: the root, and the entries of every
\* directory below it; a link to a directory is yielded and not descended
\* into, unless it is the root
WalkDir(fs, root) ==
    {path \in DOMAIN fs :
        /\ StartsWith(path, root)
        /\ fs[path].kind # "none"
        /\ \A n \in Len(root) + 1..Len(path) - 1 :
              fs[SubSeq(path, 1, n)].kind = "dir"}

\* lines 78-112 of add_directory over the entries in the order the walk
\* yields them: the cache [interner, entries] after the loop
RECURSIVE AddEntries(_, _, _, _)
AddEntries(fs, cache, order, k) ==
    IF k > Len(order) THEN cache
    ELSE LET path == order[k]
             known == /\ path \in DOMAIN cache.interner.map
                      /\ cache.interner.map[path] \in DOMAIN cache.entries
             metadata == ToMetadata(fs, path)
             put == InternerGetOrPutClone(cache.interner, path)
             \* path.is_dir() follows symbolic links
             is_dir == fs[path].kind \in {"dir", "link_dir"}
         IN IF known \/ is_dir \/ metadata = None
            THEN AddEntries(fs, cache, order, k + 1)
            ELSE AddEntries(fs,
                     [interner |-> put.interner,
                      entries |-> [id \in DOMAIN cache.entries \cup {put.id} |->
                                      IF id = put.id THEN Unwrap(metadata)
                                      ELSE cache.entries[id]]],
                     order, k + 1)

\* an empty cache and interner before a tree in which every entry is one of
\* the kinds above
InitCatalog ==
    LET Root == <<"/", "s">>
        Kinds == {"none", "file", "dir", "link_file", "link_dir", "link_none", "locked"}
        Nodes == [kind : Kinds, length : {1}, inode : 1..MaxInode]
    IN /\ GenIdle
       /\ ExecIdle
       /\ f_call = "path_cache"
       /\ f_output = None
       /\ \E a \in Nodes, b \in Nodes, c \in Nodes :
             /\ c.kind # "none" => a.kind \in {"dir", "link_dir"}
             /\ \A n \in {a, b, c} :
                   n.kind \in {"none", "dir", "link_dir", "link_none"} => n.inode = 1
             /\ f_input =
                  [fs |-> (Root :> [kind |-> "dir", length |-> 1, inode |-> 1])
                          @@ (Root \o <<"a">> :> a) @@ (Root \o <<"b">> :> b)
                          @@ (Root \o <<"a", "c">> :> c),
                   interner |-> [map |-> <<>>, vec |-> <<>>, frozen |-> FALSE],
                   entries |-> <<>>,
                   visited_directories |-> <<>>]

\* cache.add_directory(&mut interner, root), for a root that is absolute
\* and for which root.is_dir() holds (any other root panics at lines 63-69)
AddDirectoryCall ==
    /\ f_call = "path_cache"
    /\ \E root \in {path \in DOMAIN f_input.fs :
                       f_input.fs[path].kind \in {"dir", "link_dir"}} :
          /\ ~(root \in {f_input.visited_directories[n] :
                            n \in DOMAIN f_input.visited_directories})
          /\ f_output' = Some(root)
          /\ IF \E n \in DOMAIN f_input.visited_directories :
                    StartsWith(root, f_input.visited_directories[n])
             THEN f_input' = f_input
             ELSE \E order \in SeqsUpTo(WalkDir(f_input.fs, root), 4) :
                    /\ {order[n] : n \in DOMAIN order} = WalkDir(f_input.fs, root)
                    /\ Len(order) = Cardinality(WalkDir(f_input.fs, root))
                    /\ LET cache == AddEntries(f_input.fs, f_input, order, 1)
                       IN f_input' = [f_input EXCEPT
                             !.interner = cache.interner,
                             !.entries = cache.entries,
                             !.visited_directories = Append(@, root)]
    /\ UNCHANGED <<f_call, gvars, evars>>

SpecCatalog == InitCatalog /\ [][AddDirectoryCall]_vars

(***************************************************************************)
(* metadata.rs: discover_and_apply_searches                                *)
(*                                                                         *)
(* f_input is [files, disk_metadata, paths]: the TorrentFileEntry records  *)
(* with searches None, the catalog (PathId -> PathCacheEntry) and the      *)
(* frozen interner's vector; ids are 0-based as in the code.  Every        *)
(* cataloged path and every relative target has a final component, as      *)
(* find_file_similarity's file_name().unwrap() requires.                   *)
(***************************************************************************)
MaxRecords == 2   \* most file records of a discovery

\* Path::ends_with: child's components are the last components of path
EndsWith(path, child) ==
    /\ Len(child) <= Len(path)
    /\ SubSeq(path, Len(path) - Len(child) + 1, Len(path)) = child

\* find_file_similarity that ranks a path ending with the relative target
\* before one ending with the export target
FindFileSimilarity_RelativeFirst(entry, relative_target, export_target) ==
    IF EndsWith(entry, relative_target) THEN 0
    ELSE IF EndsWith(entry, export_target) THEN 1
    ELSE IF entry[Len(entry)] = relative_target[Len(relative_target)] THEN 2
    ELSE 3

\* find_file_similarity
FindFileSimilarity(entry, relative_target, export_target) ==
    IF EndsWith(entry, export_target) THEN 0
    ELSE IF EndsWith(entry, relative_target) THEN 1
    ELSE IF entry[Len(entry)] = relative_target[Len(relative_target)] THEN 2
    ELSE 3

\* lines 321-338 that keep a handle unless an added one has the same
\* device and index node and length, without the test
RemoveHardLinks_KeepAll(disk_metadata, handles) ==
    handles

\* lines 321-338 with the handle compared with the last added one only
RemoveHardLinks_LastOnly(disk_metadata, handles) ==
    LET RECURSIVE Filter(_, _)
        Filter(k, filtered) ==
            IF k > Len(handles) THEN filtered
            ELSE IF /\ filtered # <<>>
                    /\ disk_metadata[handles[k]] = disk_metadata[filtered[Len(filtered)]]
            THEN Filter(k + 1, filtered)
            ELSE Filter(k + 1, Append(filtered, handles[k]))
    IN Filter(1, <<>>)

\* lines 321-338: keep a handle unless one already added has an equal entry
\* (PathCacheEntry::eq: same file_length, device_node and index_node)
RemoveHardLinks(disk_metadata, handles) ==
    LET RECURSIVE Filter(_, _)
        Filter(k, filtered) ==
            IF k > Len(handles) THEN filtered
            ELSE IF \E n \in 1..Len(filtered) :
                       disk_metadata[handles[k]] = disk_metadata[filtered[n]]
            THEN Filter(k + 1, filtered)
            ELSE Filter(k + 1, Append(filtered, handles[k]))
    IN Filter(1, <<>>)

\* discover_and_apply_searches; iteration is the order in which
\* disk_metadata.iter() yields the handles of the HashMap
DiscoverAndApplySearches(files, disk_metadata, paths, iteration) ==
    LET RECURSIVE Select(_, _)
        \* the subsequence of the handles that are in kept
        Select(handles, kept) ==
            IF handles = <<>> THEN <<>>
            ELSE IF Head(handles) \in kept
            THEN <<Head(handles)>> \o Select(Tail(handles), kept)
            ELSE Select(Tail(handles), kept)
        Searches(metadata) ==
            LET handles == Select(iteration,
                               {handle \in DOMAIN disk_metadata :
                                   disk_metadata[handle].file_length
                                       = metadata.file_length})
                Sim(handle) ==
                    FindFileSimilarity(paths[handle + 1],
                                       paths[metadata.relative_target + 1],
                                       paths[metadata.export_target + 1])
                \* sort_by is stable: handles of equal similarity keep their order
                Ranked(sim) == Select(handles, {handle \in DOMAIN disk_metadata :
                                                  Sim(handle) = sim})
                sorted == Ranked(0) \o Ranked(1) \o Ranked(2) \o Ranked(3)
                filtered == RemoveHardLinks(disk_metadata, sorted)
            IN IF Len(filtered) > 0 THEN Some(filtered) ELSE None
    IN [n \in 1..Len(files) |-> [files[n] EXCEPT !.searches = Searches(files[n])]]

\* the interner holds the export targets /e/a and /e/d/a, the relative
\* targets a and d/a and the scanned /s/a, /s/d/a and /s/c; the catalog holds
\* any of /e/a and the scanned paths, each with one of the index nodes
\* 1..MaxInode + 1 on device 1, the last being the only file of length 2 and
\* the others having length 1; a file record has the relative target a or
\* d/a and length 1 or 2
InitDiscover ==
    LET Targets == << <<"a">>, <<"d", "a">> >>
        Scanned == << <<"/", "s", "a">>, <<"/", "s", "d", "a">>, <<"/", "s", "c">> >>
        vec == [n \in 1..2 |-> <<"/", "e">> \o Targets[n]] \o Targets \o Scanned
        Records == {[file_length |-> file_length, export_target |-> n - 1,
                     relative_target |-> n + 1, padding |-> FALSE,
                     searches |-> None] : n \in 1..2, file_length \in 1..2}
        Entry(inode) == [file_length |-> IF inode > MaxInode THEN 2 ELSE 1,
                         device_node |-> 1, index_node |-> inode]
    IN /\ GenIdle
       /\ ExecIdle
       /\ f_call = "discover_and_apply_searches"
       /\ f_output = None
       /\ \E files \in SeqsUpTo(Records, MaxRecords) \ {<<>>},
             cataloged \in SUBSET {0, 4, 5, 6} :
             \E inodes \in [cataloged -> 1..MaxInode + 1] :
                f_input = [files |-> files,
                           disk_metadata |-> [id \in cataloged |-> Entry(inodes[id])],
                           paths |-> vec]

\* discover_and_apply_searches(&mut torrent_file_metadata, &disk_metadata,
\* &path_interner), the HashMap yielding its handles in any order
DiscoverCall ==
    LET RECURSIVE Orders(_)
        Orders(handles) ==
            IF handles = {} THEN {<<>>}
            ELSE UNION {{<<handle>> \o order : order \in Orders(handles \ {handle})} :
                           handle \in handles}
    IN /\ f_call = "discover_and_apply_searches"
       /\ f_output = None
       /\ \E iteration \in Orders(DOMAIN f_input.disk_metadata) :
             f_output' = Some(DiscoverAndApplySearches(f_input.files,
                                  f_input.disk_metadata, f_input.paths, iteration))
       /\ UNCHANGED <<f_call, f_input, gvars, evars>>

SpecDiscover == InitDiscover /\ [][DiscoverCall]_vars

(***************************************************************************)
(* writer.rs, with the export-file length checks of metadata.rs and        *)
(* finder.rs that run before it.                                           *)
(*                                                                         *)
(* The file system fs maps a path to None (no such file) or to Some of the *)
(* file's bytes; byte k of a file found on disk is OldByte(k), and a byte  *)
(* the file system filled in when a file grew is 0.  A file record is [id, *)
(* file_length, full_target, is_padding_file]; metadata.rs calls the last  *)
(* two export_target and padding.  While a run is exercised f_input is     *)
(* [metadata, pieces, fs, cache, capacity, phase, resize_export_files,     *)
(* written, wrote]: the records, the pieces of the torrent, the file       *)
(* system, the ids whose handle the writer's cache holds, the cache's      *)
(* capacity, where the run is ("start", "write", "failed"), the positions  *)
(* of the pieces handed to the writer, and the ids of the records a        *)
(* segment was written for.  f_output is the last call.                    *)
(***************************************************************************)
MaxExportLength == 3   \* longest export file found on disk before the run
MaxRecordLength == 2   \* longest declared file

\* byte k of a file that existed before the run
OldByte(k) == 100 + k

\* File::set_len: truncates, or extends with zeros
SetLen(bytes, length) ==
    [k \in 1..length |-> IF k <= Len(bytes) THEN bytes[k] ELSE 0]

\* seek(SeekFrom::Start(position)) and write_all(data): overwrites, growing
\* the file (a gap reads as zeros) when the data ends past its end
WriteAll(bytes, position, data) ==
    [k \in 1..Max(Len(bytes), position + Len(data)) |->
        IF k > position /\ k <= position + Len(data) THEN data[k - position]
        ELSE IF k <= Len(bytes) THEN bytes[k] ELSE 0]

\* validate_export_file_length: TRUE for Ok(()), FALSE for Err
ValidateExportFileLength(entry, fs, resize_export_files) ==
    IF entry.is_padding_file THEN TRUE
    ELSE IF fs[entry.full_target] = None THEN TRUE
    ELSE LET actual_length == Len(Unwrap(fs[entry.full_target]))
             expected_length == entry.file_length
         IN IF ~resize_export_files /\ actual_length < expected_length THEN FALSE
            ELSE IF actual_length > expected_length THEN FALSE
            ELSE TRUE

\* correct_export_file_length: the file system it leaves
CorrectExportFileLength(entry, fs) ==
    IF entry.is_padding_file THEN fs
    ELSE IF fs[entry.full_target] = None THEN fs
    ELSE LET actual_length == Len(Unwrap(fs[entry.full_target]))
             expected_length == entry.file_length
         IN IF actual_length < expected_length
            THEN [fs EXCEPT ![entry.full_target] =
                     Some(SetLen(Unwrap(fs[entry.full_target]), expected_length))]
            ELSE fs

\* fix_export_file_lengths: the first loop returns Err at the first file that
\* is longer than declared, before the second loop extends any file
FixExportFileLengths(metadata, fs) ==
    LET RECURSIVE Extend(_, _)
        Extend(n, current) ==
            IF n > Len(metadata) THEN current
            ELSE IF metadata[n].is_padding_file \/ current[metadata[n].full_target] = None
            THEN Extend(n + 1, current)
            ELSE LET actual_length == Len(Unwrap(current[metadata[n].full_target]))
                     expected_length == metadata[n].file_length
                 IN Extend(n + 1,
                           IF actual_length < expected_length
                           THEN [current EXCEPT ![metadata[n].full_target] =
                                    Some(SetLen(Unwrap(current[metadata[n].full_target]),
                                                expected_length))]
                           ELSE current)
    IN IF \E n \in 1..Len(metadata) :
              /\ ~metadata[n].is_padding_file
              /\ fs[metadata[n].full_target] # None
              /\ Len(Unwrap(fs[metadata[n].full_target])) > metadata[n].file_length
       THEN [ok |-> FALSE, fs |-> fs]
       ELSE [ok |-> TRUE, fs |-> Extend(1, fs)]

\* FileWriter::new: the capacity of the cache of open handles
FileWriterNew(pieces, threads) ==
    LET counts == {0} \cup {Len(pieces[n].files) : n \in 1..Len(pieces)}
        max_files == CHOOSE most \in counts : \A count \in counts : count <= most
    IN Max(max_files, threads)

\* the same, a skipped segment not moving the position in output_bytes
WriteSegment_NoAdvance(state, file, metadata, source_path, bytes, victims) ==
    LET start_position == state.next_start_position
        end_position == start_position + file.read_length
        file_export == metadata.full_target
        id == metadata.id
        opened == IF id \in state.cache THEN state.fs
                  ELSE [state.fs EXCEPT ![file_export] =
                           Some(SetLen(IF state.fs[file_export] = None THEN <<>>
                                       ELSE Unwrap(state.fs[file_export]),
                                       metadata.file_length))]
    IN IF metadata.is_padding_file
          \/ (source_path # None /\ file_export = Unwrap(source_path))
       THEN state
       ELSE [fs |-> [opened EXCEPT ![file_export] =
                        Some(WriteAll(Unwrap(opened[file_export]), file.read_start_position,
                                      SubSeq(bytes, start_position + 1, end_position)))],
             cache |-> IF id \in state.cache THEN state.cache
                       ELSE IF Cardinality(state.cache) >= state.capacity
                       THEN (state.cache \ victims) \cup {id}
                       ELSE state.cache \cup {id},
             next_start_position |-> end_position,
             wrote_to_disk |-> TRUE,
             wrote |-> state.wrote \cup {id},
             capacity |-> state.capacity]

\* lines 30-89, the body of the loop of FileWriter::write for one segment:
\* state is [fs, cache, next_start_position, wrote_to_disk, wrote, capacity],
\* and victims the handles a full cache drops when it inserts one
WriteSegment(state, file, metadata, source_path, bytes, victims) ==
    LET start_position == state.next_start_position
        end_position == start_position + file.read_length
        file_export == metadata.full_target
        id == metadata.id
        opened == IF id \in state.cache THEN state.fs
                  ELSE [state.fs EXCEPT ![file_export] =
                           Some(SetLen(IF state.fs[file_export] = None THEN <<>>
                                       ELSE Unwrap(state.fs[file_export]),
                                       metadata.file_length))]
    IN IF metadata.is_padding_file
          \/ (source_path # None /\ file_export = Unwrap(source_path))
       THEN [state EXCEPT !.next_start_position = end_position]
       ELSE [fs |-> [opened EXCEPT ![file_export] =
                        Some(WriteAll(Unwrap(opened[file_export]), file.read_start_position,
                                      SubSeq(bytes, start_position + 1, end_position)))],
             cache |-> IF id \in state.cache THEN state.cache
                       ELSE IF Cardinality(state.cache) >= state.capacity
                       THEN (state.cache \ victims) \cup {id}
                       ELSE state.cache \cup {id},
             next_start_position |-> end_position,
             wrote_to_disk |-> TRUE,
             wrote |-> state.wrote \cup {id},
             capacity |-> state.capacity]

\* FileWriter::write: the segments of item in order, each with its source
\* path (paths and bytes are the arguments output_paths and output_bytes);
\* victims[n] is what the cache drops if segment n inserts a handle
RECURSIVE FileWriterWrite(_, _, _, _, _, _, _)
FileWriterWrite(state, item, metadata, paths, bytes, victims, n) ==
    IF n > Min(Len(item.files), Len(paths)) THEN state
    ELSE FileWriterWrite(
             WriteSegment(state, item.files[n], metadata[item.files[n].file_index + 1],
                          paths[n], bytes, victims[n]),
             item, metadata, paths, bytes, victims, n + 1)

\* the paths of the model: two export targets and one scanned file
WriterPaths == {"e1", "e2", "s"}

\* a run starts with a torrent of two files, the second of which may be a
\* padding file and may have the path of the first (torrent.rs accepts a
\* file list that names a path twice); export files exist or not, with any
\* length; the writer is new
InitWriter ==
    LET Lengths == 1..MaxRecordLength
        Existing == {None} \cup {Some([k \in 1..length |-> OldByte(k)]) : length \in 0..MaxExportLength}
        Metadata(first, second, target, padding) ==
            <<[id |-> 0, file_length |-> first, full_target |-> "e1",
               is_padding_file |-> FALSE],
              [id |-> 1, file_length |-> second, full_target |-> target,
               is_padding_file |-> padding]>>
        Info(first, second, piece_length) ==
            [length |-> None,
             files |-> Some(<<[length |-> first, path |-> <<>>],
                              [length |-> second, path |-> <<>>]>>),
             piece_length |-> piece_length,
             pieces |-> [n \in 1..((first + second + piece_length - 1) \div piece_length)
                            |-> <<>>]]
    IN /\ GenIdle
       /\ ExecIdle
       /\ f_call = "writer"
       /\ f_output = None
       /\ \E first \in Lengths, second \in Lengths, target \in {"e1", "e2"},
             padding \in BOOLEAN, piece_length \in 1..(2 * MaxRecordLength - 1),
             threads \in 1..2, e1 \in Existing, e2 \in Existing,
             resize_export_files \in BOOLEAN :
               LET pieces == FromTorrent(Info(first, second, piece_length)).token
               IN f_input = [metadata |-> Metadata(first, second, target, padding),
                             pieces |-> pieces,
                             fs |-> [path \in WriterPaths |->
                                        IF path = "e1" THEN e1
                                        ELSE IF path = "e2" THEN e2
                                        ELSE Some(<<OldByte(1)>>)],
                             cache |-> {},
                             capacity |-> FileWriterNew(pieces, threads),
                             phase |-> "start",
                             resize_export_files |-> resize_export_files,
                             written |-> {},
                             wrote |-> {}]

\* validate_export_file_length for every record and, when none failed and
\* the user asked for it, correct_export_file_length for every record
ValidateCall ==
    /\ f_call = "writer"
    /\ f_input.phase = "start"
    /\ LET metadata == f_input.metadata
           valid == \A n \in 1..Len(metadata) :
                       ValidateExportFileLength(metadata[n], f_input.fs,
                                                f_input.resize_export_files)
           RECURSIVE Correct(_, _)
           Correct(n, fs) ==
               IF n > Len(metadata) THEN fs
               ELSE Correct(n + 1, CorrectExportFileLength(metadata[n], fs))
       IN /\ f_input' = [f_input EXCEPT
                            !.phase = IF valid THEN "write" ELSE "failed",
                            !.fs = IF valid /\ f_input.resize_export_files
                                   THEN Correct(1, f_input.fs) ELSE @]
          /\ f_output' = Some([call |-> "validate", ok |-> valid])
    /\ UNCHANGED <<f_call, gvars, evars>>

\* fix_export_file_lengths(&metadata)?
FixExportFileLengthsCall ==
    /\ f_call = "writer"
    /\ f_input.phase = "start"
    /\ LET fixed == FixExportFileLengths(f_input.metadata, f_input.fs)
       IN /\ f_input' = [f_input EXCEPT
                            !.phase = IF fixed.ok THEN "write" ELSE "failed",
                            !.fs = fixed.fs]
          /\ f_output' = Some([call |-> "fix_export_file_lengths", ok |-> fixed.ok])
    /\ UNCHANGED <<f_call, gvars, evars>>

\* writer.write(item, &output_paths, &output_bytes) for a solved piece not
\* written yet: a padding segment has no source path, any other was read at
\* its export target or at the scanned file; byte k of the piece at
\* position p - 1 is 10 * p + k
WriteCall ==
    /\ f_call = "writer"
    /\ f_input.phase = "write"
    /\ \E p \in (1..Len(f_input.pieces)) \ f_input.written :
          LET item == f_input.pieces[p]
              record(n) == f_input.metadata[item.files[n].file_index + 1]
              bytes == [k \in 1..item.length |-> 10 * p + k]
          IN \E paths \in [1..Len(item.files) -> {None, Some("e1"), Some("e2"), Some("s")}],
                victims \in [1..Len(item.files) -> SUBSET {0, 1}] :
                /\ \A n \in 1..Len(item.files) :
                      paths[n] \in IF record(n).is_padding_file THEN {None}
                                          ELSE {Some(record(n).full_target), Some("s")}
                /\ LET done == FileWriterWrite(
                                   [fs |-> f_input.fs, cache |-> f_input.cache,
                                    next_start_position |-> 0, wrote_to_disk |-> FALSE,
                                    wrote |-> f_input.wrote,
                                    capacity |-> f_input.capacity],
                                   item, f_input.metadata, paths, bytes,
                                   victims, 1)
                   IN /\ f_input' = [f_input EXCEPT !.fs = done.fs,
                                                    !.cache = done.cache,
                                                    !.written = @ \cup {p},
                                                    !.wrote = done.wrote]
                      /\ f_output' = Some([call |-> "write", item |-> item,
                                           output_paths |-> paths,
                                           output_bytes |-> bytes,
                                           result |-> Ok(done.wrote_to_disk)])
    /\ UNCHANGED <<f_call, gvars, evars>>

NextWriter == ValidateCall \/ FixExportFileLengthsCall \/ WriteCall

SpecWriter == InitWriter /\ [][NextWriter]_vars

(***************************************************************************)
(* orchestrator.rs: the checks Orchestrator::start makes before it sets up *)
(* the finder.  A torrent is its info_hash; f_input is [torrents,          *)
(* paths_valid], the second saying that every scan directory and the       *)
(* export directory exist, are directories and are absolute.  f_output is  *)
(* None before the call, then Some of Err(InvalidInput) or of the torrents *)
(* the run goes on with.                                                   *)
(***************************************************************************)
MaxTorrents == 4   \* most torrents passed to the orchestrator
MaxDigest == 3     \* the info_hash values torrents are drawn from

InvalidInput == [ok |-> FALSE, kind |-> "InvalidInput"]

\* lines 35-64 of Orchestrator::start: the directories are checked first;
\* then a torrent whose info_hash an earlier torrent has is an error (seen is
\* the vector hashes)
OrchestratorStart(options) ==
    LET RECURSIVE Unique(_, _)
        Unique(n, seen) ==
            IF n > Len(options.torrents) THEN TRUE
            ELSE IF \E k \in 1..Len(seen) : seen[k] = options.torrents[n] THEN FALSE
            ELSE Unique(n + 1, Append(seen, options.torrents[n]))
    IN IF ~options.paths_valid THEN InvalidInput
       ELSE IF ~Unique(1, <<>>) THEN InvalidInput
       ELSE Ok(options.torrents)

InitStart ==
    /\ GenIdle
    /\ ExecIdle
    /\ f_call = "start"
    /\ f_output = None
    /\ f_input \in [torrents : SeqsUpTo(1..MaxDigest, MaxTorrents), paths_valid : BOOLEAN]

\* Orchestrator::start(&options)
StartCall ==
    /\ f_call = "start"
    /\ f_output = None
    /\ f_output' = Some(OrchestratorStart(f_input))
    /\ UNCHANGED <<f_call, f_input, gvars, evars>>

SpecStart == InitStart /\ [][StartCall]_vars

(***************************************************************************)
(* solver/solver.rs and solver/multiple.rs: the balance of the queue-based *)
(* scheduler.  A queue is a sequence of item ids; an item stands for an    *)
(* OrchestratorPiece.                                                      *)
(***************************************************************************)
MaxWork == 3        \* number of distinct items in the queues
MaxQueue == 2       \* longest queue given to balance
MaxOthers == 2      \* largest number of other live workers

\* piece.files.len() of an item
FilesLen(item) == 1 + (item % 2)

\* usize subtraction a - b of the "lost" figure in the println: with overflow
\* checks an underflow panics, without them it wraps and the call goes on
Underflows(a, b, overflow_checks) == a < b /\ overflow_checks

\* Solver::balance (the trait's default)
BalanceDefault(source, others, overflow_checks) ==
    IF Len(others) = 0 THEN Ok([source |-> source, others |-> others])
    ELSE LET max_worker ==
                 CHOOSE m \in 1..Len(others) :
                     /\ \A k \in 1..Len(others) : Len(others[k]) <= Len(others[m])
                     /\ \A k \in 1..(m - 1) : Len(others[k]) < Len(others[m])
             total_work == Len(others[max_worker])
             take == (total_work \div 2) + (IF total_work % 2 # 0 THEN 1 ELSE 0)
             new_source == source \o SubSeq(others[max_worker], 1, take)
             rest == SubSeq(others[max_worker], take + 1, total_work)
             counted_work == Len(new_source) + Len(rest)
         IN IF Underflows(total_work, counted_work, overflow_checks) THEN Panicked
            ELSE Ok([source |-> new_source,
                     others |-> [others EXCEPT ![max_worker] = rest]])

\* MultiplePieceSolver::balance: the items of source, sorted by segment count
\* (stable), are dealt from the back to source and the others in turn
BalanceMultiple(source, others, overflow_checks) ==
    LET total_work == Len(source)
        active_threads == Len(others) + 1
        rank(i) == Cardinality({j \in 1..total_work :
                       \/ FilesLen(source[j]) < FilesLen(source[i])
                       \/ FilesLen(source[j]) = FilesLen(source[i]) /\ j <= i})
        collected == [p \in 1..total_work |->
                         source[CHOOSE i \in 1..total_work : rank(i) = p]]
        popped == [k \in 1..total_work |-> collected[total_work - k + 1]]
        dealt(q) == [m \in 1..((total_work - q + active_threads - 1) \div active_threads)
                        |-> popped[q + 1 + (m - 1) * active_threads]]
        new_others == [q \in 1..Len(others) |->
                          others[q] \o (IF q < total_work THEN dealt(q) ELSE <<>>)]
        counted_work == Len(dealt(0)) + Len(Flatten(new_others))
    IN IF Underflows(total_work, counted_work, overflow_checks) THEN Panicked
       ELSE Ok([source |-> dealt(0), others |-> new_others])

\* the queues as Solver::start hands them to balance (lines 38-85): source is
\* the idle worker's own, empty queue, others the queues of the other live
\* workers, holding at least one item together
InitBalance ==
    /\ GenIdle
    /\ ExecIdle
    /\ f_call = "balance"
    /\ f_output = None
    /\ f_input \in
          {in \in [source : {<<>>},
                   others : SeqsUpTo(SeqsUpTo(1..MaxWork, MaxQueue), MaxOthers)] :
              /\ Len(in.others) >= 1
              /\ Len(Flatten(in.others)) >= 1
              /\ \A i, j \in 1..Len(Flatten(in.others)) :
                    i # j => Flatten(in.others)[i] # Flatten(in.others)[j]}

\* Self::balance(guard.as_mut().unwrap(), &mut others) for a solver that keeps
\* the default
DefaultBalanceCall ==
    /\ f_call = "balance"
    /\ f_output = None
    /\ \E overflow_checks \in BOOLEAN :
          f_output' = Some([kind |-> "default",
                            result |-> BalanceDefault(f_input.source, f_input.others,
                                                      overflow_checks)])
    /\ UNCHANGED <<f_call, f_input, gvars, evars>>

\* the same call for MultiplePieceSolver
MultipleBalanceCall ==
    /\ f_call = "balance"
    /\ f_output = None
    /\ \E overflow_checks \in BOOLEAN :
          f_output' = Some([kind |-> "multiple",
                            result |-> BalanceMultiple(f_input.source, f_input.others,
                                                       overflow_checks)])
    /\ UNCHANGED <<f_call, f_input, gvars, evars>>

SpecBalance == InitBalance /\ [][DefaultBalanceCall \/ MultipleBalanceCall]_vars

(***************************************************************************)
(* processor.rs.  The Processor, the queues start builds and the items the *)
(* worker function was called on are kept in f_input; f_output is start's  *)
(* return value.  Thread t owns work_queues[t]; a queue is None once its   *)
(* thread has marked itself dead.                                          *)
(***************************************************************************)
MaxJobs == 3          \* longest item list given to Processor::new
MaxProcThreads == 3   \* largest thread_count given to Processor::new

\* the sorter closures tried: sort by ascending or by descending item id, or
\* leave the slice as it is
Sorters == {"ascending", "descending", "keep"}

Sorted(queue, sorter) ==
    LET elems == {queue[i] : i \in 1..Len(queue)}
        below(x) == Cardinality({y \in elems : y <= x})
    IN IF sorter = "keep" THEN queue
       ELSE [p \in 1..Len(queue) |->
                CHOOSE x \in elems :
                    below(x) = IF sorter = "ascending" THEN p ELSE Len(queue) - p + 1]

\* Processor::balance: source keeps the last ceil(total / active) items, the
\* others are extended from the front of source; the division by others.len()
\* panics when there is no other queue
ProcessorBalance(source, others, overflow_checks) ==
    IF Len(others) = 0 THEN Panicked
    ELSE LET total_work == Len(source)
             active_threads == Len(others) + 1
             work_for_other_threads ==
                 total_work - ((total_work \div active_threads)
                               + (IF total_work % active_threads # 0 THEN 1 ELSE 0))
             min_work_per_worker == work_for_other_threads \div Len(others)
             remainder == work_for_other_threads % Len(others)
             drained(k) == (k * min_work_per_worker) + Min(k, remainder)
             new_others == [k \in 1..Len(others) |->
                               others[k] \o SubSeq(source, drained(k - 1) + 1, drained(k))]
             new_source == SubSeq(source, work_for_other_threads + 1, total_work)
             counted_work == Len(new_source) + Len(Flatten(new_others))
         IN IF Underflows(total_work, counted_work, overflow_checks) THEN Panicked
            ELSE Ok([source |-> new_source, others |-> new_others])

\* the orders in which a set of thread ids can come out of the HashMap
Orders(S) ==
    {o \in [1..Cardinality(S) -> S] : \A i, j \in 1..Cardinality(S) : i # j => o[i] # o[j]}

\* Processor::new(items, thread_count), before start is called
InitProcessor ==
    /\ GenIdle
    /\ ExecIdle
    /\ f_call = "processor"
    /\ f_output = None
    /\ \E n \in 0..MaxJobs, requested \in 0..MaxProcThreads, sorter \in Sorters :
          f_input = [items |-> [i \in 1..n |-> i],
                     thread_count |-> Max(Min(n, requested), 1),
                     sorter |-> sorter,
                     started |-> FALSE,
                     work_queues |-> <<>>,
                     exited |-> {},
                     invoked |-> <<>>]

\* Processor::start, lines 18-158: the early return, the sort, the initial
\* balance and the spawning of the threads
ProcessorStart ==
    /\ f_call = "processor"
    /\ f_output = None
    /\ ~f_input.started
    /\ IF Len(f_input.items) = 0
       THEN /\ f_output' = Some(Ok(<<>>))
            /\ UNCHANGED f_input
       ELSE \E overflow_checks \in BOOLEAN :
               LET r == ProcessorBalance(Sorted(f_input.items, f_input.sorter),
                                         [k \in 1..(f_input.thread_count - 1) |-> <<>>],
                                         overflow_checks)
               IN IF ~r.ok
                  THEN /\ f_output' = Some(Panicked)
                       /\ UNCHANGED f_input
                  ELSE /\ f_input' =
                             [f_input EXCEPT
                                 !.started = TRUE,
                                 !.work_queues =
                                     [t \in 0..(f_input.thread_count - 1) |->
                                         IF t = 0 THEN Some(r.token.source)
                                         ELSE Some(r.token.others[t])]]
                       /\ UNCHANGED f_output
    /\ UNCHANGED <<f_call, gvars, evars>>

\* one turn of the loop of thread t, lines 54-151: pop an item and call the
\* worker on it, or, the queue found empty, rebalance under the lock of the
\* map (taken in the map's order, sorted by length) and mark the thread dead
\* when its queue is still empty
WorkerLoop(t) ==
    LET queues == f_input.work_queues
        local == Unwrap(queues[t])
        live == {o \in DOMAIN queues : o # t /\ queues[o] # None}
    IN /\ f_call = "processor"
       /\ f_output = None
       /\ f_input.started
       /\ t \in DOMAIN queues
       /\ t \notin f_input.exited
       /\ IF Len(local) > 0
          THEN f_input' = [f_input EXCEPT
                   !.work_queues[t] = Some(SubSeq(local, 1, Len(local) - 1)),
                   !.invoked = Append(@, local[Len(local)])]
          ELSE \E other_guards \in Orders(live), overflow_checks \in BOOLEAN :
                  /\ \A i, j \in 1..Len(other_guards) :
                        i < j => Len(Unwrap(queues[other_guards[i]]))
                                    <= Len(Unwrap(queues[other_guards[j]]))
                  /\ LET taken == Flatten([k \in 1..Len(other_guards) |->
                                              Unwrap(queues[other_guards[k]])])
                         r == ProcessorBalance(Sorted(taken, f_input.sorter),
                                               [k \in 1..Len(other_guards) |-> <<>>],
                                               overflow_checks)
                         position(o) == CHOOSE k \in 1..Len(other_guards) :
                                            other_guards[k] = o
                     IN IF Len(other_guards) > 0 /\ Len(taken) > 0 /\ r.ok
                        THEN f_input' = [f_input EXCEPT
                                 !.work_queues =
                                     [o \in DOMAIN queues |->
                                         IF o = t THEN Some(r.token.source)
                                         ELSE IF o \in live
                                         THEN Some(r.token.others[position(o)])
                                         ELSE queues[o]]]
                        ELSE f_input' = [f_input EXCEPT
                                 !.work_queues =
                                     [o \in DOMAIN queues |->
                                         IF o = t THEN None
                                         ELSE IF o \in live THEN Some(<<>>)
                                         ELSE queues[o]],
                                 !.exited = @ \cup {t}]
       /\ UNCHANGED <<f_call, f_output, gvars, evars>>

\* Processor::start, lines 160-173: every thread is joined and none failed
ProcessorJoin ==
    /\ f_call = "processor"
    /\ f_output = None
    /\ f_input.started
    /\ f_input.exited = DOMAIN f_input.work_queues
    /\ f_output' = Some(Ok(<<>>))
    /\ UNCHANGED <<f_call, f_input, gvars, evars>>

NextProcessor ==
    \/ ProcessorStart
    \/ \E t \in 0..(MaxProcThreads - 1) : WorkerLoop(t)
    \/ ProcessorJoin

SpecProcessor == InitProcessor /\ [][NextProcessor]_vars

(***************************************************************************)
(* Properties of the generator                                             *)
(***************************************************************************)
Solvable(choices) ==
    Len(choices) > 0 /\ \A i \in 1..Len(choices) : choices[i] >= 1

\* the Cartesian product of the ranges 0..c_i - 1
CartesianProduct(choices) ==
    {v \in [1..Len(choices) -> 0..MaxCount + 1] :
        \A i \in 1..Len(choices) : v[i] < choices[i]}

RECURSIVE ProductOver(_, _)
ProductOver(choices, M) ==
    IF M = {} THEN 1
    ELSE LET i == CHOOSE x \in M : TRUE
         IN choices[i] * ProductOver(choices, M \ {i})

\* the Mask-products of all classifications of the axes into Mask and Range
MaskProducts(choices) == {ProductOver(choices, M) : M \in SUBSET (1..Len(choices))}

SetMin(S) == CHOOSE x \in S : \A y \in S : x <= y

\* C5: for every C with all entries >= 1 and every target, the choices produced
\* over all tasks are the elements of the Cartesian product, each exactly once,
\* and the task workloads sum to the product of the c_i.
C5_ExactlyOnce ==
    Solvable(g_choices) =>
        /\ \A i, j \in 1..Len(g_produced) : i # j => g_produced[i] # g_produced[j]
        /\ \A i \in 1..Len(g_produced) : g_produced[i] \in CartesianProduct(g_choices)
        /\ g_pc = "done" =>
              /\ {g_produced[i] : i \in 1..Len(g_produced)} = CartesianProduct(g_choices)
              /\ g_workload = Combinations(g_choices)

C5_Witness ==
    /\ g_pc = "done"
    /\ Len(g_choices) = 3
    /\ Len(g_tasks) >= 3
    /\ Len(g_produced) >= 12

\* C6 as stated: whenever some classification (all-Mask included) has a
\* Mask-product >= target, the number of tasks is the smallest such product.
C6_Original ==
    (/\ g_pc = "done"
     /\ Solvable(g_choices)
     /\ \E m \in MaskProducts(g_choices) : m >= g_target)
    => Len(g_tasks) = SetMin({m \in MaskProducts(g_choices) : m >= g_target})

\* C6 amended: the number of tasks is the smallest Mask-product >= target among
\* the Mask-products smaller than the product of all c_i; when no such
\* Mask-product exists (only the full product reaches the target, or nothing
\* does) a single task is yielded.
C6_BestFit ==
    (g_pc = "done" /\ Solvable(g_choices)) =>
        LET fits == {m \in MaskProducts(g_choices) :
                        m >= g_target /\ m < Combinations(g_choices)}
        IN IF fits # {} THEN Len(g_tasks) = SetMin(fits) ELSE Len(g_tasks) = 1

C6_Witness ==
    /\ g_pc = "done"
    /\ Solvable(g_choices)
    /\ g_target = 3
    /\ Len(g_tasks) = 3
    /\ Combinations(g_choices) > 3

\* C7: when target >= the product of all c_i, exactly one task is yielded, and
\* every axis of it is a Range covering 0..c_i.
C7_SingleTask ==
    (Solvable(g_choices) /\ g_target >= Combinations(g_choices)) =>
        /\ Len(g_tasks) <= 1
        /\ g_pc = "done" => Len(g_tasks) = 1
        /\ \A t \in 1..Len(g_tasks) : \A i \in 1..Len(g_choices) :
              /\ g_tasks[t].selection[i].kind = "AllRange"
              /\ g_tasks[t].selection[i].start = 0
              /\ g_tasks[t].selection[i].end = g_choices[i]

C7_Witness ==
    /\ g_pc = "done"
    /\ Solvable(g_choices)
    /\ Combinations(g_choices) = 6
    /\ g_target = 6
    /\ Len(g_tasks) = 1
    /\ Len(g_produced) = 6

\* C8: an empty candidate-count vector, or one that contains a 0, leaves the
\* generator ended: no task and no choice is yielded, whatever the target.
C8_EmptyGenerator ==
    ~Solvable(g_choices) =>
        /\ g_pc # "idle" => generator.ended
        /\ g_tasks = <<>>
        /\ g_produced = <<>>
        /\ g_pc \in {"idle", "gen", "done"}

C8_Witness ==
    /\ g_pc = "done"
    /\ Len(g_choices) = 2
    /\ g_choices[1] = 2
    /\ g_choices[2] = 0
    /\ g_target = 2

(***************************************************************************)
(* Properties of the solver and the executor                               *)
(***************************************************************************)
AllDone == thread_count > 0 /\ \A w \in Workers : wpc[w] = "done"

ItemSet == {items[i] : i \in 1..Len(items)}

FoundSent(piece_id) ==
    {k \in 1..Len(sent[piece_id]) : sent[piece_id][k].found}

\* the bytes of a segment as the metadata describe them: the candidate's byte
\* range [read_start_position, read_start_position + read_length), or
\* read_length zero bytes for a padding segment (path None)
SegmentRange(piece_file, path) ==
    IF path = None THEN Zeros(piece_file.read_length)
    ELSE ReadBytes(Unwrap(path), piece_file.read_length,
                   piece_file.read_start_position)

RECURSIVE ConcatRanges(_, _, _)
ConcatRanges(files, paths, k) ==
    IF k > Len(files) THEN <<>>
    ELSE SegmentRange(files[k], paths[k]) \o ConcatRanges(files, paths, k + 1)

\* the candidates of a segment: None for a padding file, else its searches
SegmentCandidates(piece_file) ==
    LET file == TorrentFiles[piece_file.file_id]
    IN IF file.padding THEN {None}
       ELSE IF file.searches = None THEN {}
       ELSE {Some(Unwrap(file.searches)[k]) : k \in 1..Len(Unwrap(file.searches))}

\* some choice of one candidate per segment concatenates to the declared digest
MatchExists(piece_id) ==
    LET files == PieceFiles[piece_id]
    IN \E paths \in [1..Len(files) -> {None} \cup {Some(q) : q \in 1..Len(Disk)}] :
          /\ \A k \in 1..Len(files) : paths[k] \in SegmentCandidates(files[k])
          /\ Hash20(ConcatRanges(files, paths, 1)) = hashes[piece_id]

\* C1: every piece handed to the executor gets exactly one PieceUpdate over the
\* whole run: never more than one, and one once every worker has terminated.
C1_ExactlyOneUpdate ==
    \A q \in ItemSet :
        /\ Len(sent[q]) <= 1
        /\ AllDone => Len(sent[q]) = 1

\* C2: at most one found PieceUpdate per piece is ever sent, and a worker is
\* about to send only after its compare-and-swap set the completed flag: per
\* piece, the workers in front of their send and the found updates sent are at
\* most one together, and the flag is set when there is one.
C2_SingleWinner ==
    \A q \in ItemSet :
        LET senders == {w \in Workers : wpc[w] = "send" /\ task_state[w] = Some(q)}
        IN /\ Cardinality(senders) + Cardinality(FoundSent(q)) <= 1
           /\ Cardinality(senders) + Cardinality(FoundSent(q)) = 1 => completed[q]

\* two workers hold matching buffers of one piece: one has won and sent, the
\* other is in front of its compare-and-swap
C2_Witness ==
    \E q \in ItemSet : \E w \in Workers :
        /\ wpc[w] = "hash"
        /\ task_state[w] = Some(q)
        /\ Hash20(output_bytes[w]) = hashes[q]
        /\ completed[q]
        /\ Cardinality(FoundSent(q)) = 1
        /\ Unwrap(sent[q][1].output_bytes) # output_bytes[w]

\* C3: every found PieceUpdate carries bytes that hash to the declared digest
\* and that are the concatenation, in segment order, of the segment ranges of
\* the candidates named in output_paths (zeros for a padding segment).
C3_FoundBytes ==
    \A q \in ItemSet : \A k \in FoundSent(q) :
        LET u == sent[q][k]
            files == PieceFiles[q]
        IN /\ Hash20(Unwrap(u.output_bytes)) = hashes[q]
           /\ Len(Unwrap(u.output_paths)) = Len(files)
           /\ \A i \in 1..Len(files) :
                 (Unwrap(u.output_paths)[i] = None) = TorrentFiles[files[i].file_id].padding
           /\ Unwrap(u.output_bytes) = ConcatRanges(files, Unwrap(u.output_paths), 1)

\* C4, as the result of a finished run: when every worker has terminated, every
\* piece for which a matching choice exists has had a found PieceUpdate sent.
C4_MatchFound ==
    AllDone => \A q \in ItemSet : MatchExists(q) => FoundSent(q) # {}

\* C9: every worker eventually terminates, and a terminated worker implies an
\* empty pending list and empty slots.
C9_Termination ==
    /\ <>(\A w \in Workers : wpc[w] = "done")
    /\ [](\A w \in Workers :
            wpc[w] = "done" => pending = <<>> /\ \A i \in Workers : active[i] = None)

C9_Witness ==
    /\ thread_count = 2
    /\ Len(items) = 2
    /\ wpc[0] = "done"
    /\ wpc[1] = "solve"
    /\ pending = <<>>

\* the number of places a piece is in: pending entries, slots, retired
Places(piece_id) ==
    Cardinality({i \in 1..Len(pending) : pending[i].piece_id = piece_id})
    + Cardinality({i \in Workers :
                      active[i] # None /\ Unwrap(active[i]).piece_id = piece_id})
    + (IF piece_id \in retired THEN 1 ELSE 0)

\* C10: in every reachable state each piece passed to run is in exactly one
\* place: the pending list, one worker slot, or retired.
C10_OnePlace ==
    /\ \A q \in ItemSet : Places(q) = 1
    /\ \A q \in PieceIds \ ItemSet : Places(q) = 0

\* a rebalance has moved the task of slot 1 into slot 0 after the first task
\* retired
C10_Witness ==
    /\ thread_count = 2
    /\ Len(items) = 2
    /\ items[2] \in retired
    /\ active[0] # None
    /\ Unwrap(active[0]).piece_id = items[1]
    /\ active[1] = None

\* C11: a completed flag only ever goes from false to true; once it is true,
\* Task::take hands out no further task of the piece (no worker goes from its
\* take into solve for it) and a worker iterating a task of the piece leaves at
\* the top of its next iteration (no worker goes from the loop head to hashing).
C11_Cancellation ==
    [][/\ \A q \in PieceIds : completed[q] => completed'[q]
       /\ \A w \in Workers :
             (wpc[w] = "take" /\ wpc'[w] = "solve")
                => ~completed[Unwrap(task_state'[w])]
       /\ \A w \in Workers :
             (wpc[w] = "solve" /\ wpc'[w] = "hash")
                => ~completed[Unwrap(task_state[w])]]_vars

\* a worker has left the loop of solve on the completed flag with choices of
\* its task left: its buffers are cleared and its consumer has not ended
C11_Witness ==
    \E w \in Workers : \E q \in ItemSet :
        /\ wpc[w] = "take"
        /\ task_state[w] = Some(q)
        /\ completed[q]
        /\ ~choice_consumer[w].ended
        /\ output_paths[w] = <<>>

\* no worker can take another step: each has terminated or panicked
Quiescent ==
    thread_count > 0 /\ \A w \in Workers : wpc[w] \in {"done", "panicked"}

\* C12, as the result of a finished run: every piece for which a read failed
\* has had a PieceUpdate with fault = true sent, and every other piece has been
\* processed to completion (its task was taken until take returned None).
C12_FaultReported ==
    Quiescent =>
        /\ \A q \in io_failed :
              \E k \in 1..Len(sent[q]) : sent[q][k].fault
        /\ \A q \in ItemSet \ io_failed : q \in retired

(***************************************************************************)
(* Properties of the bencode parser                                        *)
(***************************************************************************)
\* the call of decode has returned
Decoded == f_call = "decode" /\ f_output # None

\* C13: decode returns a token only when the token spans the whole input, and
\* returns one whenever the first token does; the empty input and every input
\* with bytes after a complete token (an input with a proper prefix that
\* decodes) yield MalformedData.
C13_WholeInput ==
    Decoded =>
        LET r == Unwrap(f_output)
            first == DecodeAny(f_input, 0)
        IN /\ f_input = <<>> => r = MalformedData
           /\ r.ok => /\ r.token.start_position = 0
                       /\ r.token.continuation_position = Len(f_input)
           /\ (first.ok /\ first.token.continuation_position = Len(f_input))
                 => r = first
           /\ (\E k \in 1..Len(f_input) - 1 : Decode(SubSeq(f_input, 1, k)).ok)
                 => r = MalformedData

\* a list followed by one more byte has been rejected
C13_Witness ==
    /\ Decoded
    /\ Decode(SubSeq(f_input, 1, Len(f_input) - 1)).ok
    /\ f_input[1] = Byte.l
    /\ Unwrap(f_output) = MalformedData

\* C14: an input that starts with 'i' decodes exactly when it is 'i', the
\* canonical decimal of a value in [IntMin, IntMax] ('-' before the digits of a
\* negative value, no leading zero, "0" for zero, never "-0") and 'e'; the
\* token then carries that value, and every other such input is MalformedData.
C14_IntegerGrammar ==
    (Decoded /\ f_input # <<>> /\ f_input[1] = Byte.i) =>
        LET r == Unwrap(f_output)
            RECURSIVE Decimal(_)
            Decimal(n) ==
                IF n < 10 THEN <<Byte.zero + n>>
                ELSE Append(Decimal(n \div 10), Byte.zero + (n % 10))
            Encoding(v) ==
                <<Byte.i>> \o (IF v < 0 THEN <<Byte.minus>> \o Decimal(-v) ELSE Decimal(v))
                    \o <<Byte.e>>
        IN /\ r.ok <=> \E v \in IntMin..IntMax : f_input = Encoding(v)
           /\ r.ok => /\ r.token.kind = "Integer"
                       /\ f_input = Encoding(r.token.value)
           /\ ~r.ok => r = MalformedData

\* the smallest value has been decoded
C14_Witness ==
    /\ Decoded
    /\ Unwrap(f_output).ok
    /\ Unwrap(f_output).token.kind = "Integer"
    /\ Unwrap(f_output).token.value = IntMin

\* x is below y in byte-lexicographic order
LexLess(x, y) ==
    \E k \in 0..Min(Len(x), Len(y)) :
        /\ SubSeq(x, 1, k) = SubSeq(y, 1, k)
        /\ \/ k = Len(x) /\ k < Len(y)
           \/ k < Len(x) /\ k < Len(y) /\ x[k + 1] < y[k + 1]

\* the first two entries after the 'd' of bytes, each a string followed by a
\* token
TwoEntries(bytes) ==
    LET k1 == DecodeString(bytes, 1)
    IN IF ~k1.ok THEN [ok |-> FALSE]
       ELSE LET v1 == DecodeAny(bytes, k1.token.continuation_position)
            IN IF ~v1.ok THEN [ok |-> FALSE]
               ELSE LET k2 == DecodeString(bytes, v1.token.continuation_position)
                    IN IF ~k2.ok THEN [ok |-> FALSE]
                       ELSE LET v2 == DecodeAny(bytes, k2.token.continuation_position)
                            IN IF ~v2.ok THEN [ok |-> FALSE]
                               ELSE [ok |-> TRUE,
                                     keys |-> <<k1.token, k2.token>>,
                                     values |-> <<v1.token, v2.token>>,
                                     position |-> v2.token.continuation_position]

\* C15: a decoded dictionary has as many values as keys, every key is a string
\* token directly followed by its value, and the keys are strictly ascending in
\* byte-lexicographic order; an input whose first two entries have keys that
\* are equal or descending is MalformedData, and one with two ascending entries
\* closed by 'e' decodes to exactly these entries.
C15_SortedKeys ==
    (Decoded /\ f_input # <<>> /\ f_input[1] = Byte.d) =>
        LET r == Unwrap(f_output)
            two == TwoEntries(f_input)
        IN /\ r.ok =>
                 /\ r.token.kind = "Dictionary"
                 /\ Len(r.token.keys) = Len(r.token.values)
                 /\ \A n \in 1..Len(r.token.keys) :
                        /\ r.token.keys[n].kind = "String"
                        /\ r.token.values[n].start_position
                             = r.token.keys[n].continuation_position
                 /\ \A m, n \in 1..Len(r.token.keys) :
                        m < n => LexLess(r.token.keys[m].value, r.token.keys[n].value)
           /\ (two.ok /\ ~LexLess(two.keys[1].value, two.keys[2].value))
                 => r = MalformedData
           /\ ( /\ two.ok
                /\ LexLess(two.keys[1].value, two.keys[2].value)
                /\ two.position = Len(f_input) - 1
                /\ f_input[Len(f_input)] = Byte.e )
                 => /\ r.ok
                    /\ r.token.keys = two.keys
                    /\ r.token.values = two.values

\* a dictionary with the same key twice has been rejected
C15_Witness ==
    /\ Decoded
    /\ f_input # <<>>
    /\ f_input[1] = Byte.d
    /\ TwoEntries(f_input).ok
    /\ TwoEntries(f_input).keys[1].value = TwoEntries(f_input).keys[2].value
    /\ TwoEntries(f_input).position = Len(f_input) - 1
    /\ Unwrap(f_output) = MalformedData

\* C16: an input that starts with a digit decodes exactly when its digits up
\* to the first ':' are a canonical decimal (no leading zero but "0" itself)
\* and exactly the declared number of bytes follow the ':'; the token carries
\* these bytes; and whenever the declared length is above the number of bytes
\* that remain, whatever its size, the result is MalformedData.
C16_StringGrammar ==
    (Decoded /\ f_input # <<>> /\ IsDigit(f_input[1])) =>
        LET r == Unwrap(f_output)
            colons == {p \in 1..Len(f_input) : f_input[p] = Byte.colon}
            colon == CHOOSE p \in colons : \A q \in colons : p <= q
            digits == SubSeq(f_input, 1, colon - 1)
            canonical ==
                /\ colons # {}
                /\ \A k \in 1..Len(digits) : IsDigit(digits[k])
                /\ Len(digits) = 1 \/ digits[1] # Byte.zero
            RECURSIVE Value(_)
            Value(ds) ==
                IF ds = <<>> THEN 0
                ELSE 10 * Value(SubSeq(ds, 1, Len(ds) - 1)) + (ds[Len(ds)] - Byte.zero)
            remaining == Len(f_input) - colon
        IN /\ r.ok <=> (canonical /\ Value(digits) = remaining)
           /\ r.ok => /\ r.token.kind = "String"
                       /\ r.token.value = SubSeq(f_input, colon + 1, Len(f_input))
           /\ (canonical /\ Value(digits) > remaining) => r = MalformedData

\* the tokens directly inside a list or a dictionary, in input order
Children(token) ==
    IF token.kind = "List" THEN token.value
    ELSE IF token.kind = "Dictionary"
    THEN [n \in 1..2 * Len(token.keys) |->
            IF n % 2 = 1 THEN token.keys[(n + 1) \div 2] ELSE token.values[n \div 2]]
    ELSE <<>>

\* every token of the tree below and including token
RECURSIVE TokensOf(_)
TokensOf(token) ==
    {token} \cup UNION {TokensOf(Children(token)[n]) : n \in 1..Len(Children(token))}

\* the tree with every position moved down by k
RECURSIVE Shift(_, _)
Shift(token, k) ==
    LET moved == [token EXCEPT !.start_position = @ - k,
                               !.continuation_position = @ - k]
    IN IF token.kind = "List"
       THEN [moved EXCEPT !.value = [n \in 1..Len(token.value) |-> Shift(token.value[n], k)]]
       ELSE IF token.kind = "Dictionary"
       THEN [moved EXCEPT
               !.keys = [n \in 1..Len(token.keys) |-> Shift(token.keys[n], k)],
               !.values = [n \in 1..Len(token.values) |-> Shift(token.values[n], k)]]
       ELSE moved

\* C17: in a decoded tree the root spans the whole input; every token has
\* start < continuation <= input length and the bytes between them decode to
\* that token; the first child of a list or dictionary starts one past the
\* parent's start, every further child at the continuation of the one before,
\* and the parent's continuation is one past its closing 'e'; and the bytes
\* hashed for a dictionary by calculate_info_hash are exactly its encoding.
C17_Positions ==
    (Decoded /\ Unwrap(f_output).ok) =>
        LET root == Unwrap(f_output).token
        IN /\ root.start_position = 0
           /\ root.continuation_position = Len(f_input)
           /\ \A t \in TokensOf(root) :
                 LET c == Children(t)
                 IN /\ t.start_position < t.continuation_position
                    /\ t.continuation_position <= Len(f_input)
                    /\ Decode(SubSeq(f_input, t.start_position + 1,
                                     t.continuation_position))
                         = Ok(Shift(t, t.start_position))
                    /\ t.kind \in {"List", "Dictionary"} =>
                          /\ c # <<>> => c[1].start_position = t.start_position + 1
                          /\ \A n \in 2..Len(c) :
                                c[n].start_position = c[n - 1].continuation_position
                          /\ f_input[t.continuation_position] = Byte.e
                          /\ t.continuation_position - 1
                               = IF c = <<>> THEN t.start_position + 1
                                 ELSE c[Len(c)].continuation_position
                    /\ t.kind = "Dictionary" =>
                          Decode(InfoHashInput(t, f_input)) = Ok(Shift(t, t.start_position))

\* a dictionary inside a dictionary, after a key and before another entry,
\* has been decoded
C17_Witness ==
    /\ Decoded
    /\ Unwrap(f_output).ok
    /\ \E t \in TokensOf(Unwrap(f_output).token) :
          /\ t.kind = "Dictionary"
          /\ t.start_position > 0
          /\ t.continuation_position < Len(f_input) - 1

(***************************************************************************)
(* Properties of the metainfo model                                        *)
(***************************************************************************)
\* the call of info_dictionary has returned
InfoReturned == f_call = "info_dictionary" /\ f_output # None

\* the file lengths a descriptor declares: its length, or those of its files
DeclaredLengths(info) ==
    IF info.files # None
    THEN [n \in 1..Len(Unwrap(info.files)) |-> Unwrap(Unwrap(info.files)[n].length)]
    ELSE <<Unwrap(info.length)>>

\* the least whole number of parts of size b that hold a
CeilDiv(a, b) == (a + b - 1) \div b

\* C18: an accepted info dictionary has as many piece digests as
\* ceil(total_length / piece_length), total_length the sum of the declared file
\* lengths (or the single length).
C18_PieceCount ==
    (InfoReturned /\ Unwrap(f_output).ok) =>
        CeilDiv(Len(Unwrap(f_input.pieces)), DigestLen)
            = CeilDiv(SumOf(DeclaredLengths(f_input)), Unwrap(f_input.piece_length))

\* the descriptor has either a length or files, and every file has a length
LengthsDeclared(info) ==
    /\ (info.files = None) # (info.length = None)
    /\ info.files # None =>
          \A n \in 1..Len(Unwrap(info.files)) : Unwrap(info.files)[n].length # None

\* apart from the sign of its file lengths the descriptor is valid: at least
\* one file, a positive piece length, a non-empty pieces string with
\* ceil(total_length / piece_length) digests, and sizes that every conversion
\* of the model represents exactly
ValidButLengths(info) ==
    /\ LengthsDeclared(info)
    /\ DeclaredLengths(info) # <<>>
    /\ Unwrap(info.piece_length) \in 1..2 ^ MantissaBits
    /\ SumOf(DeclaredLengths(info)) <= 2 ^ MantissaBits
    /\ Unwrap(info.pieces) # <<>>
    /\ CeilDiv(Len(Unwrap(info.pieces)), DigestLen)
         = CeilDiv(SumOf(DeclaredLengths(info)), Unwrap(info.piece_length))

\* C19: a descriptor with a negative file length is rejected with
\* MalformedData, and an otherwise valid descriptor whose file lengths are all
\* non-negative, zero included, is accepted.
C19_NonNegativeLengths ==
    (InfoReturned /\ LengthsDeclared(f_input)) =>
        LET lengths == DeclaredLengths(f_input)
        IN /\ (\E n \in 1..Len(lengths) : lengths[n] < 0)
                 => Unwrap(f_output) = MalformedData
           /\ (ValidButLengths(f_input) /\ \A n \in 1..Len(lengths) : lengths[n] >= 0)
                 => Unwrap(f_output).ok

(***************************************************************************)
(* Properties of the read plans                                            *)
(***************************************************************************)
\* the call of from_torrent has returned
PlanReturned == f_call = "from_torrent" /\ f_output # None

\* the lengths of the files of a torrent, in declaration order
FileLengths(info) ==
    IF info.files # None
    THEN [n \in 1..Len(Unwrap(info.files)) |-> Unwrap(info.files)[n].length]
    ELSE <<Unwrap(info.length)>>

\* the segments of all plans in plan order
RECURSIVE AllSegments(_)
AllSegments(pieces) ==
    IF pieces = <<>> THEN <<>>
    ELSE AllSegments(SubSeq(pieces, 1, Len(pieces) - 1)) \o pieces[Len(pieces)].files

\* the subsequence of segments that read the file at file_index
RECURSIVE SegmentsOf(_, _)
SegmentsOf(segments, file_index) ==
    IF segments = <<>> THEN <<>>
    ELSE IF Head(segments).file_index = file_index
    THEN <<Head(segments)>> \o SegmentsOf(Tail(segments), file_index)
    ELSE SegmentsOf(Tail(segments), file_index)

\* C20: from_torrent returns one plan per digest, the n-th with position
\* n - 1 and the n-th digest; the segment lengths of a plan add up to
\* piece_length, those of the last plan to total_length - (n - 1) *
\* piece_length; the files appear in declaration order, and the segments of
\* each file are contiguous from offset 0 to the length of the file.
C20_ReadPlans ==
    PlanReturned =>
        LET r == Unwrap(f_output)
            lengths == FileLengths(f_input)
            count == Len(f_input.pieces)
            segments == AllSegments(r.token)
        IN /\ r.ok
           /\ Len(r.token) = count
           /\ \A n \in 1..count :
                 LET plan == r.token[n]
                     sum == SumOf([k \in 1..Len(plan.files) |-> plan.files[k].read_length])
                 IN /\ plan.position = n - 1
                    /\ plan.hash = f_input.pieces[n]
                    /\ plan.length = sum
                    /\ sum = IF n < count THEN f_input.piece_length
                             ELSE SumOf(lengths) - (count - 1) * f_input.piece_length
           /\ \A k \in 2..Len(segments) :
                 segments[k - 1].file_index <= segments[k].file_index
           /\ \A file_index \in 0..Len(lengths) - 1 :
                 LET own == SegmentsOf(segments, file_index)
                 IN /\ \A k \in 1..Len(own) :
                          /\ own[k].file_length = lengths[file_index + 1]
                          /\ own[k].read_start_position
                               = IF k = 1 THEN 0
                                 ELSE own[k - 1].read_start_position + own[k - 1].read_length
                    /\ SumOf([k \in 1..Len(own) |-> own[k].read_length])
                         = lengths[file_index + 1]

\* a plan has been made whose last piece is short and which reads one file
\* in two pieces and two files in one piece
C20_Witness ==
    /\ PlanReturned
    /\ Unwrap(f_output).ok
    /\ f_input.files # None
    /\ SumOf(FileLengths(f_input)) % f_input.piece_length # 0
    /\ \E n \in 1..Len(Unwrap(f_output).token) :
          Len(Unwrap(f_output).token[n].files) >= 2
    /\ \E k \in 1..Len(AllSegments(Unwrap(f_output).token)) :
          AllSegments(Unwrap(f_output).token)[k].read_start_position > 0

(***************************************************************************)
(* Properties of the path interner                                         *)
(***************************************************************************)
\* the interner is the object exercised
Interning == f_call = "interner"

\* the last call was put or get_or_put_clone
Interned(output) ==
    /\ output # None
    /\ Unwrap(output).call \in {"put", "get_or_put_clone"}

\* C21: after any sequence of put / get_or_put_clone calls the ids are
\* exactly 0..n-1 for the n distinct paths interned and get_by_id(put(p)) = p;
\* interning a path that is already interned returns its id and adds nothing;
\* an id once assigned keeps its path for ever, also across freeze, and a
\* frozen interner never gets another id.
C21_Interner ==
    /\ [](Interning =>
            /\ ~f_input.frozen =>
                  /\ DOMAIN f_input.map = {f_input.vec[i] : i \in DOMAIN f_input.vec}
                  /\ {f_input.map[p] : p \in DOMAIN f_input.map}
                        = 0..Cardinality(DOMAIN f_input.map) - 1
                  /\ \A p \in DOMAIN f_input.map : GetById(f_input, f_input.map[p]) = p
            /\ Interned(f_output) =>
                  GetById(f_input, Unwrap(f_output).id) = Unwrap(f_output).path)
    /\ [][Interning =>
            /\ Len(f_input'.vec) >= Len(f_input.vec)
            /\ \A id \in 0..Len(f_input.vec) - 1 :
                  GetById(f_input', id) = GetById(f_input, id)
            /\ f_input.frozen => f_input'.frozen /\ f_input'.vec = f_input.vec
            /\ Interned(f_output') /\ f_input' # f_input =>
                  /\ Len(f_input'.vec) = Len(f_input.vec) + 1
                  /\ ~(Unwrap(f_output').path \in DOMAIN f_input.map)
            /\ (Interned(f_output') /\ ~f_input.frozen
                  /\ Unwrap(f_output').path \in DOMAIN f_input.map) =>
                  /\ f_input' = f_input
                  /\ Unwrap(f_output').id = f_input.map[Unwrap(f_output').path]]_vars

\* the path interned first has been interned again after a second path and
\* got its id 0 back
C21_Witness ==
    /\ Interning
    /\ Interned(f_output)
    /\ Len(f_input.vec) >= 2
    /\ Unwrap(f_output).id = 0

(***************************************************************************)
(* Properties of the path cache                                            *)
(***************************************************************************)
\* add_directory has walked a root
Walked == f_call = "path_cache" /\ f_output # None

\* C25: after add_directory has walked a root the catalog holds no entry for
\* a directory or for a symbolic link, whatever the link points to: every
\* cataloged path is a regular file under a walked root.
C25_RegularFilesOnly ==
    Walked =>
        \A id \in DOMAIN f_input.entries :
            /\ f_input.fs[GetById(f_input.interner, id)].kind = "file"
            /\ \E n \in DOMAIN f_input.visited_directories :
                  StartsWith(GetById(f_input.interner, id),
                             f_input.visited_directories[n])

(***************************************************************************)
(* Properties of search discovery                                          *)
(***************************************************************************)
\* discover_and_apply_searches has returned
Discovered == f_call = "discover_and_apply_searches" /\ f_output # None

\* the cataloged PathIds whose length is the file length of the record
LengthMatches(record) ==
    {id \in DOMAIN f_input.disk_metadata :
        f_input.disk_metadata[id].file_length = record.file_length}

\* the affinity rank of a cataloged path for a record: the smallest applicable
\* of 0 (ends with the export target), 1 (ends with the relative target),
\* 2 (same final component as the relative target) and 3
AffinityRank(id, record) ==
    LET path == f_input.paths[id + 1]
        export_target == f_input.paths[record.export_target + 1]
        relative_target == f_input.paths[record.relative_target + 1]
    IN SetMin({0 : x \in {1} \cap {IF EndsWith(path, export_target) THEN 1 ELSE 0}}
          \cup {1 : x \in {1} \cap {IF EndsWith(path, relative_target) THEN 1 ELSE 0}}
          \cup {2 : x \in {1} \cap {IF path[Len(path)]
                                         = relative_target[Len(relative_target)]
                                    THEN 1 ELSE 0}}
          \cup {3})

\* the (device, inode) identity of a cataloged path
Identity(id) ==
    <<f_input.disk_metadata[id].device_node, f_input.disk_metadata[id].index_node>>

\* C22: after discover_and_apply_searches every PathId in a record's searches
\* is cataloged with the record's file length, the list is in non-decreasing
\* affinity rank, and searches is None exactly when no cataloged path has
\* that length.
C22_RankedSearches ==
    Discovered =>
        \A n \in 1..Len(Unwrap(f_output)) :
            LET record == Unwrap(f_output)[n]
            IN /\ record.searches = None <=> LengthMatches(record) = {}
               /\ record.searches # None =>
                     LET searches == Unwrap(record.searches)
                     IN /\ \A k \in 1..Len(searches) :
                              searches[k] \in LengthMatches(record)
                        /\ \A k \in 2..Len(searches) :
                              AffinityRank(searches[k - 1], record)
                                 <= AffinityRank(searches[k], record)

\* a record has got three candidates, of the ranks 0, 1 and 3
C22_Witness ==
    /\ Discovered
    /\ \E n \in 1..Len(Unwrap(f_output)) :
          LET record == Unwrap(f_output)[n]
          IN /\ record.searches # None
             /\ Len(Unwrap(record.searches)) = 3
             /\ AffinityRank(Unwrap(record.searches)[1], record) = 0
             /\ AffinityRank(Unwrap(record.searches)[2], record) = 1
             /\ AffinityRank(Unwrap(record.searches)[3], record) = 3

\* C23: in every searches list no two PathIds have the same (device, inode);
\* every identity among the cataloged paths of the record's length is in the
\* list exactly once, represented by a path of that identity that no other
\* path of the identity precedes in the ranked order.
C23_OnePathPerIdentity ==
    Discovered =>
        \A n \in 1..Len(Unwrap(f_output)) :
            LET record == Unwrap(f_output)[n]
                searches == IF record.searches = None THEN <<>>
                            ELSE Unwrap(record.searches)
            IN /\ \A k, l \in 1..Len(searches) :
                     k # l => Identity(searches[k]) # Identity(searches[l])
               /\ {Identity(searches[k]) : k \in 1..Len(searches)}
                     = {Identity(id) : id \in LengthMatches(record)}
               /\ \A k \in 1..Len(searches) :
                     \A id \in LengthMatches(record) :
                        Identity(id) = Identity(searches[k]) =>
                           AffinityRank(searches[k], record)
                              <= AffinityRank(id, record)

\* a record has two candidates, and a third cataloged path of its length is
\* left out as a hard link of a candidate that ranks before it
C23_Witness ==
    /\ Discovered
    /\ \E n \in 1..Len(Unwrap(f_output)) :
          LET record == Unwrap(f_output)[n]
          IN /\ record.searches # None
             /\ Len(Unwrap(record.searches)) = 2
             /\ \E id \in LengthMatches(record) :
                   /\ \A k \in 1..2 : Unwrap(record.searches)[k] # id
                   /\ \E k \in 1..2 :
                         /\ Identity(Unwrap(record.searches)[k]) = Identity(id)
                         /\ AffinityRank(Unwrap(record.searches)[k], record)
                               < AffinityRank(id, record)

\* the orders in which a HashMap with these handles may yield them
RECURSIVE Orderings(_)
Orderings(handles) ==
    IF handles = {} THEN {<<>>}
    ELSE UNION {{<<handle>> \o order : order \in Orderings(handles \ {handle})} :
                   handle \in handles}

\* the catalog with one more scanned path, a hard link of a cataloged one
WithHardLink(extra, source) ==
    [id \in DOMAIN f_input.disk_metadata \cup {extra} |->
        IF id = extra THEN f_input.disk_metadata[source]
        ELSE f_input.disk_metadata[id]]

\* the candidates of a record, <<>> when searches is None
Candidates(record) ==
    IF record.searches = None THEN <<>> ELSE Unwrap(record.searches)

\* what a record's candidates offer the solver and the writer: per
\* candidate the file it reads (its identity) and whether the writer skips a
\* segment sourced from it, which it does when the candidate is the export
\* target (writer.rs:52)
Offers(record, catalog) ==
    {<<catalog[Candidates(record)[k]].device_node,
       catalog[Candidates(record)[k]].index_node,
       Candidates(record)[k] = record.export_target>> :
          k \in 1..Len(Candidates(record))}

\* a second run whose catalog has one of the extra paths besides the paths
\* of this run, as a hard link of a cataloged path, gives every file record
\* as many candidates, which read the same files and of which the writer
\* skips the same ones
SameWithHardLink(extras) ==
    \A extra \in extras \ DOMAIN f_input.disk_metadata :
        \A source \in DOMAIN f_input.disk_metadata :
            \A iteration \in Orderings(DOMAIN f_input.disk_metadata \cup {extra}) :
                LET second == DiscoverAndApplySearches(f_input.files,
                                  WithHardLink(extra, source), f_input.paths, iteration)
                IN \A n \in 1..Len(second) :
                      /\ Len(Candidates(second[n]))
                            = Len(Candidates(Unwrap(f_output)[n]))
                      /\ Offers(second[n], WithHardLink(extra, source))
                            = Offers(Unwrap(f_output)[n], f_input.disk_metadata)

\* C24 as stated: a run whose catalog has an extra path that is a hard
\* link of a cataloged one, wherever the extra path lies (/e/a, /e/d/a, /s/a,
\* /s/d/a, /s/c), gives every file record as many candidates with the same
\* (device, inode) identities, solves the same pieces and writes the same
\* bytes.
C24_Original ==
    Discovered => SameWithHardLink({0, 1, 4, 5, 6})

\* C24, amended: a run whose catalog has an extra path that is a hard link
\* of a cataloged one and is not the export target of a file record (one of
\* the scanned /s/a, /s/d/a, /s/c) gives every file record as many
\* candidates with the same (device, inode) identities; the candidates read
\* the same files and the writer skips the same ones, so the same pieces are
\* solved and the same bytes written.
C24_HardLinkInvariance ==
    Discovered => SameWithHardLink({4, 5, 6})

\* a record has a candidate that an extra hard link of better rank replaces
\* in the second run
C24_Witness ==
    /\ Discovered
    /\ \E extra \in {4, 5, 6} \ DOMAIN f_input.disk_metadata : \E source \in DOMAIN f_input.disk_metadata :
          \E iteration \in Orderings(DOMAIN f_input.disk_metadata \cup {extra}) :
             LET second == DiscoverAndApplySearches(f_input.files,
                               WithHardLink(extra, source), f_input.paths, iteration)
             IN \E n \in 1..Len(second) :
                   /\ Len(Candidates(second[n])) >= 2
                   /\ \E k \in 1..Len(Candidates(second[n])) :
                         Candidates(second[n])[k] = extra

(***************************************************************************)
(* Properties of the writer                                                *)
(***************************************************************************)
\* the run is at the writer, and the state follows a write call
WriterRun == f_call = "writer"

Wrote(output) == output # None /\ Unwrap(output).call = "write"

\* the record of segment n of a piece
SegmentRecord(item, n) == f_input.metadata[item.files[n].file_index + 1]

\* the segments of a write call that the claim says are written: the file is
\* not a padding file and the source path differs from the export target
WrittenSegments(call) ==
    {n \in 1..Len(call.item.files) :
        /\ ~SegmentRecord(call.item, n).is_padding_file
        /\ call.output_paths[n] # Some(SegmentRecord(call.item, n).full_target)}

\* o of segment n: the read_lengths of all segments before it
SegmentOffset(item, n) == SumOf([m \in 1..(n - 1) |-> item.files[m].read_length])

\* what a write call does to one path, before and after being the file
\* system around the call.  A path that is the export target of no written
\* segment is left as it was (not created, not changed).  Otherwise the file
\* exists; a position covered by a written segment holds that segment's byte
\* output_bytes[o + (position - read_start_position)], the last segment
\* winning; any other position holds what it held, or the zero the file
\* system fills in when the file is opened with its declared length.  The
\* bytes of a written segment are all in the file, unless a later segment
\* written for another record with the same export target reopened it.
WriteEffect(call, path, before, after) ==
    LET item == call.item
        here == {n \in WrittenSegments(call) : SegmentRecord(item, n).full_target = path}
        Covers(n, k) == /\ k > item.files[n].read_start_position
                        /\ k <= item.files[n].read_start_position + item.files[n].read_length
    IN IF here = {} THEN after[path] = before[path]
       ELSE /\ after[path] # None
            /\ \A k \in 1..Len(Unwrap(after[path])) :
                  LET covering == {n \in here : Covers(n, k)}
                      last == CHOOSE n \in covering : \A m \in covering : m <= n
                  IN IF covering # {}
                     THEN Unwrap(after[path])[k]
                             = call.output_bytes[SegmentOffset(item, last)
                                                 + k - item.files[last].read_start_position]
                     ELSE \/ /\ before[path] # None
                             /\ k <= Len(Unwrap(before[path]))
                             /\ Unwrap(after[path])[k] = Unwrap(before[path])[k]
                          \/ Unwrap(after[path])[k] = 0
            /\ \A n \in here :
                  \/ \E m \in here : m > n /\ SegmentRecord(item, m).id # SegmentRecord(item, n).id
                  \/ Len(Unwrap(after[path]))
                        >= item.files[n].read_start_position + item.files[n].read_length

C27_DeclaredLength ==
    WriterRun =>
        \A n \in 1..Len(f_input.metadata) :
            f_input.metadata[n].id \in f_input.wrote =>
                /\ f_input.fs[f_input.metadata[n].full_target] # None
                /\ Len(Unwrap(f_input.fs[f_input.metadata[n].full_target]))
                      = f_input.metadata[n].file_length

\* the on-disk length of an existing file never decreases in a step
NeverShrinks ==
    \A path \in WriterPaths :
        f_input.fs[path] # None =>
            /\ f_input'.fs[path] # None
            /\ Len(Unwrap(f_input'.fs[path])) >= Len(Unwrap(f_input.fs[path]))

\* an export file is longer than its record declares
LongerThanDeclared ==
    \E n \in 1..Len(f_input.metadata) :
        /\ ~f_input.metadata[n].is_padding_file
        /\ f_input.fs[f_input.metadata[n].full_target] # None
        /\ Len(Unwrap(f_input.fs[f_input.metadata[n].full_target]))
              > f_input.metadata[n].file_length

\* C28: no step of a run reduces the length of an existing file, and when
\* an export file is longer than declared at the start, the length check
\* fails and leaves every file as it is, so that nothing is resized or
\* written.
C28_NeverShrinks ==
    [][WriterRun =>
          /\ NeverShrinks
          /\ (f_input.phase = "start" /\ LongerThanDeclared) =>
                (f_input'.phase = "failed" /\ f_input'.fs = f_input.fs)]_vars

(***************************************************************************)
(* Properties of the orchestrator                                          *)
(***************************************************************************)
\* a list without the elements that occurred earlier in it
RECURSIVE FirstOccurrences(_)
FirstOccurrences(list) ==
    IF list = <<>> THEN <<>>
    ELSE LET front == FirstOccurrences(SubSeq(list, 1, Len(list) - 1))
             last == list[Len(list)]
         IN IF \E k \in 1..Len(front) : front[k] = last THEN front
            ELSE Append(front, last)

\* C29: called with valid directories, the orchestrator goes on with the
\* torrents it was passed minus every torrent whose info-digest an earlier
\* one has, the first occurrence of each digest kept and the order kept.
C29_Deduplicates ==
    (f_call = "start" /\ f_output # None /\ f_input.paths_valid) =>
        Unwrap(f_output) = Ok(FirstOccurrences(f_input.torrents))

(***************************************************************************)
(* Properties of a second run                                              *)
(***************************************************************************)
\* the source paths of a piece's segments when every segment is read at its
\* export target (None for a padding segment)
ExportPaths(piece_id) ==
    [k \in 1..Len(PieceFiles[piece_id]) |->
        IF TorrentFiles[PieceFiles[piece_id][k].file_id].padding THEN None
        ELSE Some(ExportTarget[PieceFiles[piece_id][k].file_id])]

\* the piece is in the export tree, as a first run that solved it leaves it:
\* the export target of every non-padding segment is on disk and is the first
\* candidate of its file, and the bytes read there have the declared digest
AlreadyExported(piece_id) ==
    LET files == PieceFiles[piece_id]
    IN /\ \A k \in 1..Len(files) :
             ~TorrentFiles[files[k].file_id].padding =>
                /\ TorrentFiles[files[k].file_id].searches # None
                /\ Unwrap(TorrentFiles[files[k].file_id].searches)[1]
                      = ExportTarget[files[k].file_id]
       /\ Hash20(ConcatRanges(files, ExportPaths(piece_id), 1)) = hashes[piece_id]

\* no choice of candidates with other bytes has the declared digest (the
\* scaled-down checksum has collisions that SHA-1 does not have)
NoCollision(piece_id) ==
    LET files == PieceFiles[piece_id]
    IN \A paths \in [1..Len(files) -> {None} \cup {Some(q) : q \in 1..Len(Disk)}] :
          (/\ \A k \in 1..Len(files) : paths[k] \in SegmentCandidates(files[k])
           /\ Hash20(ConcatRanges(files, paths, 1)) = hashes[piece_id])
          => ConcatRanges(files, paths, 1)
                = ConcatRanges(files, ExportPaths(piece_id), 1)

InSolve(w) == wpc[w] \in {"solve", "hash", "send"}

\* C31: a worker inside Solver::solve holds no slot mutex and not the pending
\* mutex; the pending mutex is held only by a worker in the rebalance path
\* that has locked it, and a slot mutex, outside the lock-take-unlock of a
\* take, only by a worker locking the slots to rebalance.
C31_NoLockInSolve ==
    \A w \in Workers :
        /\ InSolve(w) => HeldMutexes(w) = {}
        /\ pending_lock = Some(w) => wpc[w] \in {"lock_local", "lock_others"}
        /\ (\E i \in Workers : slot_lock[i] = Some(w)) => wpc[w] = "lock_others"

\* a worker is blocked on the full channel while another worker holds the
\* pending mutex and a slot mutex
C31_Witness ==
    \E w \in Workers : \E v \in Workers :
        /\ wpc[w] = "send"
        /\ Len(chan) = ChanCap
        /\ v # w
        /\ PendingMutex \in HeldMutexes(v)
        /\ \E i \in Workers : i \in HeldMutexes(v)

\* the pieces waiting in pending, not yet assigned to a slot
PendingPieces == {pending[k].piece_id : k \in 1..Len(pending)}

\* C32: pending is a FIFO of the item list: a piece that precedes another in
\* the list given to the executor has been assigned to a slot whenever the
\* other has, at the initial distribution and at every take from pending.
C32_Fifo ==
    \A i, j \in 1..Len(items) :
        (i < j /\ items[j] \notin PendingPieces) => items[i] \notin PendingPieces

\* what tells the tasks of one generator apart: the values of the masked axes
TaskKey(cons) ==
    [i \in 1..Len(cons.selection) |->
        IF cons.selection[i].kind = "Mask" THEN cons.selection[i].current ELSE -1]

\* the task of a piece, in the slot or the pending position it is in (C10: it
\* is in one place at most); None when no task of the piece is left
TaskOf(piece_id) ==
    LET in_slots == {i \in Workers : active[i] # None /\ Unwrap(active[i]).piece_id = piece_id}
        in_pending == {k \in 1..Len(pending) : pending[k].piece_id = piece_id}
    IN IF in_slots # {} THEN active[CHOOSE i \in in_slots : TRUE]
       ELSE IF in_pending # {} THEN Some(pending[CHOOSE k \in in_pending : TRUE])
       ELSE None

\* worker w is handed a task in this step
Handed(w) == wpc[w] = "take" /\ wpc'[w] = "solve"

\* C33: every task of a piece's generator is handed to exactly one worker.
\* Two workers never hold the same task of a piece; a take that hands a task
\* out hands out the task the generator stands on, of a piece that is not
\* completed, to the taking worker only, and moves the generator on by one
\* task; and the generator of a piece moves only when a task is handed out,
\* so that no task is skipped.
C33_OneWorkerPerTask ==
    /\ [](\A w, v \in Workers :
             (w # v /\ task_state[w] # None /\ task_state[w] = task_state[v]) =>
                TaskKey(choice_consumer[w]) # TaskKey(choice_consumer[v]))
    /\ [][/\ \A w \in Workers :
                Handed(w) =>
                   LET cur == current_thread_id[w]
                       before == TaskInitialized(Unwrap(active[cur]), target_split)
                   IN /\ ~before.generator.ended
                      /\ ~completed[before.piece_id]
                      /\ task_state'[w] = Some(before.piece_id)
                      /\ choice_consumer'[w] = GeneratorGet(before.generator)
                      /\ Unwrap(active'[cur]).generator = GeneratorNext(before.generator)
                      /\ \A v \in Workers \ {w} :
                            choice_consumer'[v] = choice_consumer[v]
          /\ \A q \in PieceIds :
                (/\ TaskOf(q) # None
                 /\ TaskOf(q)' # None
                 /\ Unwrap(TaskOf(q)).initialized
                 /\ Unwrap(TaskOf(q)').generator # Unwrap(TaskOf(q)).generator)
                => \E w \in Workers : Handed(w) /\ task_state'[w] = Some(q)]_vars

\* two workers drawing from the same slot are working on different tasks of
\* one piece
C33_Witness ==
    \E w, v \in Workers :
        /\ w # v
        /\ current_thread_id[w] = current_thread_id[v]
        /\ task_state[w] # None
        /\ task_state[w] = task_state[v]
        /\ wpc[w] \in {"solve", "hash"}
        /\ wpc[v] \in {"solve", "hash"}
        /\ ~completed[Unwrap(task_state[w])]
        /\ TaskKey(choice_consumer[w]) # TaskKey(choice_consumer[v])

\* the slots that hold a task
Occupied == {i \in Workers : active[i] # None}

\* worker w, with every slot locked, redistributes at least one task
Steals(w) == wpc[w] = "lock_others" /\ lock_index[w] >= thread_count /\ wpc'[w] = "take"

CandidateBytes(piece_file, c) ==
    ReadBytes(Unwrap(TorrentFiles[piece_file.file_id].searches)[c],
              piece_file.read_length, piece_file.read_start_position)

CandidateCount(piece_file) == Len(Unwrap(TorrentFiles[piece_file.file_id].searches))

\* the distinct byte contents among the candidates of a segment
DistinctContents(piece_file) ==
    {CandidateBytes(piece_file, c) : c \in 1..CandidateCount(piece_file)}

\* the position in searches of the first candidate with the given bytes
FirstWith(piece_file, value) ==
    CHOOSE c \in 1..CandidateCount(piece_file) :
        /\ CandidateBytes(piece_file, c) = value
        /\ \A d \in 1..(c - 1) : CandidateBytes(piece_file, d) # value

\* the preload cache of a segment is what the claim says it is
SegmentPreloaded(piece_file, kept) ==
    IF TorrentFiles[piece_file.file_id].padding
    THEN kept = << [path |-> None, bytes |-> Zeros(piece_file.read_length)] >>
    ELSE /\ Len(kept) = Cardinality(DistinctContents(piece_file))
         /\ {kept[c].bytes : c \in 1..Len(kept)} = DistinctContents(piece_file)
         /\ \A c \in 1..Len(kept) :
               kept[c].path =
                   Some(Unwrap(TorrentFiles[piece_file.file_id].searches)[
                            FirstWith(piece_file, kept[c].bytes)])
         /\ \A c, d \in 1..Len(kept) :
               c < d => FirstWith(piece_file, kept[c].bytes)
                           < FirstWith(piece_file, kept[d].bytes)

\* C35: for a multi-segment piece the preload keeps, per segment, the first
\* candidate in searches order of each distinct byte content (so every dropped
\* candidate is byte-equal to a kept one), a padding segment is one candidate
\* of read_length zero bytes without a path, and the generator of the piece
\* is given, per segment, the number of distinct contents.
C35_PreloadKeepsFirst ==
    \A i \in Workers :
        (/\ active[i] # None
         /\ Unwrap(active[i]).initialized
         /\ Len(PieceFiles[Unwrap(active[i]).piece_id]) > 1)
        => LET task == Unwrap(active[i])
               files == PieceFiles[task.piece_id]
               preloaded == Unwrap(Preloaded(task.piece_id))
           IN /\ Len(preloaded) = Len(files)
              /\ Len(task.generator.selection) = Len(files)
              /\ \A s \in 1..Len(files) :
                    /\ SegmentPreloaded(files[s], preloaded[s])
                    /\ task.generator.selection[s].end = Len(preloaded[s])
                    /\ task.generator.selection[s].end =
                          IF TorrentFiles[files[s].file_id].padding THEN 1
                          ELSE Cardinality(DistinctContents(files[s]))

\* the task of piece 2 is initialized in a slot: its second segment has the
\* candidates 3, 4, 5 with two distinct contents (5 is a copy of 4), and a
\* worker is hashing the choice that reads the kept candidate 4
C35_Witness ==
    \E i, w \in Workers :
        /\ active[i] # None
        /\ Unwrap(active[i]).initialized
        /\ Unwrap(active[i]).piece_id = 2
        /\ CandidateCount(PieceFiles[2][2]) = 3
        /\ Cardinality(DistinctContents(PieceFiles[2][2])) = 2
        /\ Unwrap(active[i]).generator.selection[2].end = 2
        /\ wpc[w] = "hash"
        /\ task_state[w] = Some(2)
        /\ output_paths[w][2] = Some(4)


\* the worker is blocked in the send on the full channel
BlockedOnSend(w) == wpc[w] = "send" /\ Len(chan) = ChanCap

\* the worker that holds the mutex worker v is about to lock, if any
\* (a worker at "take" locks the slot it draws from)
HolderOfNext(v) ==
    IF wpc[v] = "take" THEN slot_lock[current_thread_id[v]]
    ELSE IF NextMutex(v) = PendingMutex THEN pending_lock
    ELSE IF NextMutex(v) < thread_count THEN slot_lock[NextMutex(v)]
    ELSE None

\* C37: the executor never deadlocks: while a worker has not terminated, some
\* worker or the writer can take a step; and a worker blocked on the full
\* writer channel holds no mutex, so that every other worker that is not
\* itself sending can take its step, or waits for a mutex whose holder (never
\* the blocked worker) can.
C37_NoDeadlock ==
    /\ (\E w \in Workers : wpc[w] # "done") => ENABLED Next
    /\ \A w \in Workers :
          BlockedOnSend(w) =>
             /\ HeldMutexes(w) = {}
             /\ ENABLED WriterRecv
             /\ \A v \in Workers \ {w} :
                   wpc[v] \notin {"done", "send"} =>
                      \/ ENABLED RunInternal(v)
                      \/ \E u \in Workers \ {v, w} :
                            /\ HolderOfNext(v) = Some(u)
                            /\ ENABLED RunInternal(u)

\* worker 0 is blocked on the full channel while worker 1, its slot empty, is
\* about to lock pending on its way to a rebalance
C37_Witness ==
    /\ thread_count = 2
    /\ BlockedOnSend(0)
    /\ wpc[1] = "lock_pending"
    /\ active[1] = None
    /\ pending_lock = None


\* worker w, holding pending, finds its own slot occupied and retries
Retries(w) == wpc[w] = "lock_local" /\ active[w] # None /\ wpc'[w] = "take"

\* C38: once pending is empty it stays empty, and a worker that finds its own
\* slot occupied in the rebalance path draws next from its own slot, which is
\* occupied; a worker that draws from another slot has its own slot empty, so
\* that none retries on an empty slot while its own holds a task.
C38_RetryOnOwnSlot ==
    /\ [](\A w \in Workers : current_thread_id[w] # w => active[w] = None)
    /\ [][/\ pending = <<>> => pending' = <<>>
          /\ \A w \in Workers :
                Retries(w) => /\ current_thread_id[w] = w
                              /\ current_thread_id'[w] = w
                              /\ active'[w] # None]_vars

\* worker 0 found slot 0 empty, and before it locked its own slot another
\* worker rebalanced and put a task there: worker 0 holds pending and its slot
\* is occupied, while a worker that has rebalanced draws from a slot not its own
C38_Witness ==
    /\ thread_count = MaxThreads + 1
    /\ wpc[0] = "lock_local"
    /\ pending_lock = Some(0)
    /\ active[0] # None
    /\ current_thread_id[0] = 0
    /\ pending = <<>>
    /\ \E v \in Workers : current_thread_id[v] # v


(***************************************************************************)
(* Properties of the hashed buffer                                         *)
(***************************************************************************)
RECURSIVE SumReadLengths(_, _)
SumReadLengths(files, k) ==
    IF k > Len(files) THEN 0
    ELSE files[k].read_length + SumReadLengths(files, k + 1)

\* C39: for every choice Solver::solve evaluates, the hashed buffer is as long
\* as the read_lengths of the piece's segments together, on the preloaded path
\* and on the single-segment path, for a padding segment too.
C39_BufferLength ==
    \A w \in Workers :
        wpc[w] = "hash" =>
            Len(output_bytes[w]) =
                SumReadLengths(PieceFiles[Unwrap(task_state[w])], 1)


(***************************************************************************)
(* Properties of the queue-based schedulers                                *)
(***************************************************************************)
\* balance has returned for an idle source while the others held work
Balanced(kind) ==
    /\ f_call = "balance"
    /\ f_output # None
    /\ Unwrap(f_output).kind = kind
    /\ f_input.source = <<>>
    /\ Len(Flatten(f_input.others)) >= 1

\* source holds an item and no item is lost or added
SourceServed(result) ==
    /\ result.ok
    /\ Len(result.token.source) >= 1
    /\ Len(result.token.source) + Len(Flatten(result.token.others))
          = Len(f_input.source) + Len(Flatten(f_input.others))

\* C36: after balance for an idle worker whose queue is empty, while the
\* other live workers' queues hold at least one item, source holds at least
\* one item and the total number of items is unchanged, for the default
\* balance and for the override of MultiplePieceSolver.
C36_SourceGetsWork ==
    \A kind \in {"default", "multiple"} :
        Balanced(kind) => SourceServed(Unwrap(f_output).result)


\* the items waiting in the queues of the threads that are not dead
Queued ==
    Flatten(Flatten([k \in 1..Cardinality(DOMAIN f_input.work_queues) |->
                        f_input.work_queues[k - 1]]))

\* how often the item occurs in the sequence
Occurrences(queue, item) == Cardinality({i \in 1..Len(queue) : queue[i] = item})

\* a step of start or of a thread that has run balance
Balances ==
    /\ f_input'.started
    /\ f_input' # f_input
    /\ f_input'.invoked = f_input.invoked
    /\ f_input'.exited = f_input.exited

\* C40: Processor::start with a thread_count >= 1 and a non-empty item list
\* calls the worker exactly once on every item and returns Ok (no call of the
\* worker fails here); no balance loses or duplicates an item, and after a
\* balance the sizes of the queues differ by at most one.
C40_EveryItemOnce ==
    /\ []((f_call = "processor" /\ Len(f_input.items) >= 1) =>
            /\ f_output # None =>
                  /\ Unwrap(f_output).ok
                  /\ \A i \in 1..Len(f_input.items) :
                        Occurrences(f_input.invoked, f_input.items[i]) = 1
            /\ f_input.started =>
                  \A i \in 1..Len(f_input.items) :
                     Occurrences(Queued \o f_input.invoked, f_input.items[i]) = 1)
    /\ [][(f_call = "processor" /\ Balances) =>
             \A a, b \in DOMAIN f_input'.work_queues :
                (f_input'.work_queues[a] # None /\ f_input'.work_queues[b] # None)
                => Len(Unwrap(f_input'.work_queues[a]))
                      <= Len(Unwrap(f_input'.work_queues[b])) + 1]_vars

====
